---- MODULE Spec2Model ----
(***************************************************************************)
(* Appointment scheduling engine of the clinic back end: the handlers of   *)
(* the appointment controller (createAppointment, editAppointment,         *)
(* getAppointments, getAppointmentById), updateDoctor, and the             *)
(* registration of patients and doctors, over the Mongoose models          *)
(* Paciente, Doctor and appointment.                                       *)
(*                                                                         *)
(* The store is three collections.  A request is handled by one action    *)
(* (the whole handler); the response it produces stays in `res` until the *)
(* client has received it (Deliver), and together with the snapshot of    *)
(* the store taken when the request arrived it is what the properties     *)
(* talk about.  Handlers whose store calls interleave with those of        *)
(* another request are modelled one store call per action; `enCurso` holds *)
(* what each of those requests has read so far.                            *)
(***************************************************************************)
EXTENDS Integers, Sequences, FiniteSets, TLC

VARIABLES turnos, pacientes, doctores, creados, res, enCurso,
          usuarios, reloj, emitidos, gastados

vars == <<turnos, pacientes, doctores, creados, res, enCurso,
          usuarios, reloj, emitidos, gastados>>

\* The accounts, the clock and the reset links sent by mail.
cuentas == <<usuarios, reloj, emitidos, gastados>>

(***************************************************************************)
(* Bounds of the model and constants of the program.                       *)
(***************************************************************************)
\* Requests createAppointment accepts on top of the seeded store.
MaxNuevos == 1

\* `dailyCount >= 8` in createAppointment.
CupoCrear == 8
\* `cantidadDelDia >= 10` in editAppointment.
CupoEditar == 10
\* Minutes in a calendar day: the resolution of a Date in the model.
MinutosPorDia == 1440

\* A field the request body does not carry (JavaScript undefined).
Undefined == "undefined"

\* Ids of the documents of each collection; pX and dX name no document.
IdsPaciente == {"p1", "p2"}
IdsDoctor == {"d1", "d2"}
PacienteAusente == "pX"
DoctorAusente == "dX"

\* An id that names no appointment.
IdAusente == 0

\* The dni of each registered patient and the matricula of each registered
\* doctor.
DniDe == [p \in IdsPaciente |-> IF p = "p1" THEN "30111222" ELSE "30333444"]

MatriculaDe == [d \in IdsDoctor |-> IF d = "d1" THEN "MN-1001" ELSE "MN-1002"]

Estados == {"pendiente", "confirmado", "cancelado", "completado"}

\* Calendar dates (the `fecha` string of a request body) and the day number
\* each one names.
Fechas == <<"2025-03-10", "2025-03-11">>
\* Times of day (the `hora` string of a request body), one per hour from 08:00.
HorasDelDia == <<"08:00", "09:00", "10:00", "11:00", "12:00", "13:00",
                 "14:00", "15:00", "16:00", "17:00", "18:00">>

IndiceDe(seq, x) == CHOOSE i \in 1..Len(seq) : seq[i] = x

(***************************************************************************)
(* Dates.  new Date(`${fecha}T${hora}`) is the instant, in minutes, of     *)
(* that local date and time; setHours(0,0,0,0) and setHours(23,59,59,999)  *)
(* are the first and the last instant of its calendar day.                 *)
(***************************************************************************)
HoraEnMinutos(hora) == (IndiceDe(HorasDelDia, hora) + 7) * 60

NewDate(fecha, hora) == IndiceDe(Fechas, fecha) * MinutosPorDia + HoraEnMinutos(hora)

StartOfDay(date) == date - (date % MinutosPorDia)

EndOfDay(date) == StartOfDay(date) + (MinutosPorDia - 1)

(***************************************************************************)
(* JavaScript values as far as the handlers compare them: === holds only   *)
(* between values of the same type.                                        *)
(***************************************************************************)
JsBoolean(b) == [type |-> "boolean", value |-> IF b THEN "true" ELSE "false"]

JsString(s) == [type |-> "string", value |-> s]

StrictEquals(a, b) == a.type = b.type /\ a.value = b.value

(***************************************************************************)
(* The schemas.  Mongoose runs in strict mode: an update operator on a     *)
(* path the schema does not declare is dropped when the update is cast.    *)
(***************************************************************************)
PatientSchemaPaths == {"nombre", "apellido", "dni", "coberturaMedica"}

DoctorSchemaPaths == {"nombre", "apellido", "especialidad", "matricula", "telefono",
                      "email", "horarioAtencion", "activo", "maxTurnosDiarios",
                      "observaciones"}

\* { $pull: { turnos: id } } on a document of a schema with these paths.
Pull(paths, doc, id) ==
    IF "turnos" \in paths
    THEN [doc EXCEPT !.turnos = SelectSeq(@, LAMBDA x : x # id)]
    ELSE doc

\* { $push: { turnos: id } } on a document of a schema with these paths.
Push(paths, doc, id) ==
    IF "turnos" \in paths
    THEN [doc EXCEPT !.turnos = Append(@, id)]
    ELSE doc

(***************************************************************************)
(* The store and the transaction of a session.  Writes issued with         *)
(* { session } go to the staged copy; commit makes the staged copy the     *)
(* store, abort keeps the store.                                           *)
(***************************************************************************)
DB == [turnos |-> turnos, pacientes |-> pacientes, doctores |-> doctores]

CommitTransaction(committed, staged) == staged

\* A session whose abort leaves the staged writes in the store.
AbortKeepsStaged(committed, staged) == staged

AbortTransaction(committed, staged) == committed

\* abortTransaction on a session: done on a transaction in progress, an
\* error on one whose commit or abort was already called.
AbortThrows(txn) == txn \in {"committed", "aborted"}

\* What a handler hands back: the HTTP status, the kind of outcome and the store.
Respuesta(status, kind, db) == [status |-> status, kind |-> kind, db |-> db]

(***************************************************************************)
(* createAppointment(req): req = [valido, paciente, doctor, fecha, hora,   *)
(* estado, falla].  valido is the verdict of validationResult(req); falla  *)
(* names the store call that throws, if one does.                          *)
(***************************************************************************)
\* The count without its filter on estado.
DailyCountAnyState(db, doctor, inputDate) ==
    Cardinality({i \in DOMAIN db.turnos :
                    /\ db.turnos[i].doctor = doctor
                    /\ db.turnos[i].fecha >= StartOfDay(inputDate)
                    /\ db.turnos[i].fecha <= EndOfDay(inputDate)})

\* countDocuments({ doctor, fecha: { $gte: startOfDay, $lte: endOfDay },
\*                  estado: 'confirmado' })
DailyCount(db, doctor, inputDate) ==
    Cardinality({i \in DOMAIN db.turnos :
                    /\ db.turnos[i].doctor = doctor
                    /\ db.turnos[i].fecha >= StartOfDay(inputDate)
                    /\ db.turnos[i].fecha <= EndOfDay(inputDate)
                    /\ db.turnos[i].estado = "confirmado"})

\* The body's estado left to the schema's default.
EstadoDelEsquema(estado) == IF estado = Undefined THEN "pendiente" ELSE estado

\* const { ..., estado = 'confirmado' } = req.body
EstadoPorDefecto(estado) == IF estado = Undefined THEN "confirmado" ELSE estado

\* new Appointment({ paciente, doctor, fecha: inputDate, hora, estado })
NuevoTurno(req) ==
    [paciente |-> req.paciente,
     doctor   |-> req.doctor,
     fecha    |-> NewDate(req.fecha, req.hora),
     hora     |-> req.hora,
     estado   |-> EstadoPorDefecto(req.estado)]

\* The handler without its lookup of the doctor.
CreateAppointmentSinBuscarDoctor(db, req) ==
    IF ~req.valido
    THEN Respuesta(422, "InvalidData", db)
    ELSE IF req.falla = "find"
    THEN Respuesta(500, "StoreFailure", db)
    ELSE IF req.paciente \notin DOMAIN db.pacientes
    THEN Respuesta(404, "NotFound", db)
    ELSE IF req.falla = "count"
    THEN Respuesta(500, "StoreFailure", db)
    ELSE IF DailyCount(db, req.doctor, NewDate(req.fecha, req.hora)) >= CupoCrear
    THEN Respuesta(400, "CapacityExceeded", db)
    ELSE IF req.falla = "save"
    THEN Respuesta(500, "StoreFailure", db)
    ELSE Respuesta(201, "Created",
                   [db EXCEPT !.turnos = Append(@, NuevoTurno(req))])

\* A creation that makes room: it cancels the appointments that hold the
\* slot it inserts at.
CreateAppointmentLiberaElSlot(db, req) ==
    LET r == CreateAppointmentSinBuscarDoctor(db, req)
        nuevo == Len(db.turnos) + 1
    IN  IF r.status # 201 \/ req.doctor \notin DOMAIN db.doctores
        THEN [r EXCEPT !.db = db,
                       !.status = IF r.status = 201 THEN 404 ELSE @,
                       !.kind = IF r.status = 201 THEN "NotFound" ELSE @]
        ELSE [r EXCEPT !.db.turnos =
                 [i \in DOMAIN r.db.turnos |->
                     IF /\ i # nuevo
                        /\ r.db.turnos[i].doctor = req.doctor
                        /\ r.db.turnos[i].fecha = NewDate(req.fecha, req.hora)
                     THEN [r.db.turnos[i] EXCEPT !.estado = "cancelado"]
                     ELSE r.db.turnos[i]]]

CreateAppointmentResult(db, req) ==
    IF ~req.valido
    THEN Respuesta(422, "InvalidData", db)
    ELSE IF req.falla = "find"
    THEN Respuesta(500, "StoreFailure", db)
    ELSE IF req.paciente \notin DOMAIN db.pacientes
    THEN Respuesta(404, "NotFound", db)
    ELSE IF req.doctor \notin DOMAIN db.doctores
    THEN Respuesta(404, "NotFound", db)
    ELSE IF req.falla = "count"
    THEN Respuesta(500, "StoreFailure", db)
    ELSE IF DailyCount(db, req.doctor, NewDate(req.fecha, req.hora)) >= CupoCrear
    THEN Respuesta(400, "CapacityExceeded", db)
    ELSE IF req.falla = "save"
    THEN Respuesta(500, "StoreFailure", db)
    ELSE Respuesta(201, "Created",
                   [db EXCEPT !.turnos = Append(@, NuevoTurno(req))])

(***************************************************************************)
(* editAppointment(req): req = [id, paciente, doctor, fecha, hora, estado, *)
(* falla].  id is req.params.id; the other fields are the request body,    *)
(* Undefined where the body has no such key.                               *)
(***************************************************************************)
CamposPermitidos == {"paciente", "doctor", "fecha", "estado"}

\* Object.keys(req.body)
Claves(req) == {k \in DOMAIN req \ {"id", "falla"} : req[k] # Undefined}

\* Object.keys(req.body).filter(campo => camposPermitidos.includes(campo))
Actualizaciones(req) == {campo \in Claves(req) : campo \in CamposPermitidos}

\* const nuevaFecha = fecha ? new Date(`${fecha}T${hora}`) : turno.fecha
NuevaFecha(turno, req) ==
    IF req.fecha # Undefined THEN NewDate(req.fecha, req.hora) ELSE turno.fecha

\* const idDoctor = doctor || turno.doctor._id
IdDoctor(turno, req) ==
    IF req.doctor # Undefined THEN req.doctor ELSE turno.doctor

\* The lookup without _id: { $ne: turno._id }.
TurnoExistenteSinExcluir(db, idDoctor, nuevaFecha, id) ==
    \E j \in DOMAIN db.turnos :
        /\ db.turnos[j].doctor = idDoctor
        /\ db.turnos[j].fecha = nuevaFecha

\* findOne({ doctor: idDoctor, fecha: nuevaFecha, _id: { $ne: turno._id } })
TurnoExistente(db, idDoctor, nuevaFecha, id) ==
    \E j \in DOMAIN db.turnos :
        /\ j # id
        /\ db.turnos[j].doctor = idDoctor
        /\ db.turnos[j].fecha = nuevaFecha

\* The count without _id: { $ne: turno._id }.
CantidadDelDiaSinExcluir(db, idDoctor, nuevaFecha, id) ==
    Cardinality({j \in DOMAIN db.turnos :
                    /\ db.turnos[j].doctor = idDoctor
                    /\ db.turnos[j].fecha >= StartOfDay(nuevaFecha)
                    /\ db.turnos[j].fecha <= EndOfDay(nuevaFecha)})

\* countDocuments({ doctor: idDoctor, fecha: { $gte: inicioDelDia, $lte: finDelDia },
\*                  _id: { $ne: turno._id } })
CantidadDelDia(db, idDoctor, nuevaFecha, id) ==
    Cardinality({j \in DOMAIN db.turnos :
                    /\ j # id
                    /\ db.turnos[j].doctor = idDoctor
                    /\ db.turnos[j].fecha >= StartOfDay(nuevaFecha)
                    /\ db.turnos[j].fecha <= EndOfDay(nuevaFecha)})

\* The change of patient.  The appointment was loaded with its patient
\* populated: reading turno.paciente._id throws when that document is gone.
PasoPaciente(tx, turno, req) ==
    IF req.paciente = Undefined
    THEN [fin |-> "sigue", tx |-> tx, turno |-> turno]
    ELSE IF turno.paciente \notin DOMAIN tx.pacientes
    THEN [fin |-> "StoreFailure", tx |-> tx, turno |-> turno]
    ELSE IF turno.paciente = req.paciente
    THEN [fin |-> "sigue", tx |-> tx, turno |-> turno]
    ELSE IF req.paciente \notin DOMAIN tx.pacientes
    THEN [fin |-> "NotFound", tx |-> tx, turno |-> turno]
    ELSE [fin   |-> "sigue",
          tx    |-> [tx EXCEPT !.pacientes =
                        [@ EXCEPT ![turno.paciente] = Pull(PatientSchemaPaths, @, req.id),
                                  ![req.paciente] = Push(PatientSchemaPaths, @, req.id)]],
          turno |-> [turno EXCEPT !.paciente = req.paciente]]

\* nuevoDoctor.activo !== 'activo'
DoctorNoActivo(doc) == ~StrictEquals(JsBoolean(doc.activo), JsString("activo"))

\* The change of doctor.
PasoDoctor(tx, turno, req) ==
    IF req.doctor = Undefined \/ turno.doctor = req.doctor
    THEN [fin |-> "sigue", tx |-> tx, turno |-> turno]
    ELSE IF req.doctor \notin DOMAIN tx.doctores
    THEN [fin |-> "DoctorInactive", tx |-> tx, turno |-> turno]
    ELSE IF DoctorNoActivo(tx.doctores[req.doctor])
    THEN [fin |-> "DoctorInactive", tx |-> tx, turno |-> turno]
    ELSE [fin   |-> "sigue",
          tx    |-> [tx EXCEPT !.doctores =
                        [@ EXCEPT ![turno.doctor] = Pull(DoctorSchemaPaths, @, req.id),
                                  ![req.doctor] = Push(DoctorSchemaPaths, @, req.id)]],
          turno |-> [turno EXCEPT !.doctor = req.doctor]]

\* The plain fields: fecha and estado, when the body names them.
CamposSimples(turno, req, nuevaFecha) ==
    [turno EXCEPT
        !.fecha  = IF "fecha" \in Actualizaciones(req) THEN nuevaFecha ELSE @,
        !.estado = IF "estado" \in Actualizaciones(req) THEN req.estado ELSE @]

\* The status of a checked failure inside the transaction.
StatusDe(fin) == IF fin = "NotFound" THEN 404 ELSE IF fin = "StoreFailure" THEN 500 ELSE 400

EditAppointmentResult(db, req) ==
    IF ~(\A campo \in Actualizaciones(req) : campo \in CamposPermitidos)
    THEN Respuesta(400, "InvalidUpdate", db)
    ELSE IF req.falla = "find"
    THEN Respuesta(500, "StoreFailure", db)
    ELSE IF req.id \notin DOMAIN db.turnos
    THEN Respuesta(404, "NotFound", db)
    ELSE
      LET turno      == db.turnos[req.id]
          nuevaFecha == NuevaFecha(turno, req)
          idDoctor   == IdDoctor(turno, req)
          p5         == PasoPaciente(db, turno, req)
          p6         == PasoDoctor(p5.tx, p5.turno, req)
          guardado   == [p6.tx EXCEPT !.turnos[req.id] =
                            CamposSimples(p6.turno, req, nuevaFecha)]
      IN  IF TurnoExistente(db, idDoctor, nuevaFecha, req.id)
          THEN Respuesta(400, "SlotConflict", AbortTransaction(db, db))
          ELSE IF CantidadDelDia(db, idDoctor, nuevaFecha, req.id) >= CupoEditar
          THEN Respuesta(422, "CapacityExceeded", AbortTransaction(db, db))
          ELSE IF p5.fin # "sigue"
          THEN Respuesta(StatusDe(p5.fin), p5.fin, AbortTransaction(db, p5.tx))
          ELSE IF p6.fin # "sigue"
          THEN Respuesta(StatusDe(p6.fin), p6.fin, AbortTransaction(db, p6.tx))
          ELSE IF req.falla = "save"
          THEN Respuesta(500, "StoreFailure", AbortTransaction(db, p6.tx))
          ELSE IF req.falla = "commit"
          THEN IF AbortThrows("committed")
               THEN Respuesta(0, "Rejected", AbortTransaction(db, guardado))
               ELSE Respuesta(500, "StoreFailure", AbortTransaction(db, guardado))
          ELSE Respuesta(200, "OK", CommitTransaction(db, guardado))

(***************************************************************************)
(* updateDoctor(req): req = [doctorId, matricula, activo].  The PUT route  *)
(* runs no validator, so validationResult(req) is empty and the body's     *)
(* activo is the JavaScript value the client sent.                         *)
(***************************************************************************)
JsUndefined == [type |-> "undefined", value |-> "undefined"]

\* The values a Boolean path accepts, and what it casts them to.
Castable(v) == v.value \in {"true", "1", "yes", "false", "0", "no"}

CastBoolean(v) == v.value \in {"true", "1", "yes"}

\* The names the doctor controller's module binds.
Importados == {"Doctor", "HttpError", "validationResult"}

\* The instant `new Date()` gives: before every date of the model.
Ahora == 0

\* Turno.countDocuments({ doctor: doctorId, fecha: { $gt: fechaActual },
\*                        estado: { $in: ['pendiente', 'confirmado'] } })
TurnosFuturos(db, doctorId) ==
    Cardinality({i \in DOMAIN db.turnos :
                    /\ db.turnos[i].doctor = doctorId
                    /\ db.turnos[i].fecha > Ahora
                    /\ db.turnos[i].estado \in {"pendiente", "confirmado"}})

UpdateDoctorResult(db, req) ==
    IF req.doctorId \notin DOMAIN db.doctores
    THEN Respuesta(404, "NotFound", db)
    ELSE
      LET doctor == db.doctores[req.doctorId]
          baja   == doctor.activo /\ StrictEquals(req.activo, JsBoolean(FALSE))
      IN  IF /\ req.matricula # Undefined
             /\ req.matricula # doctor.matricula
             /\ \E d \in DOMAIN db.doctores : db.doctores[d].matricula = req.matricula
          THEN Respuesta(422, "DuplicateKey", db)
          ELSE IF baja /\ "Turno" \notin Importados
          THEN Respuesta(500, "StoreFailure", db)
          ELSE IF baja /\ TurnosFuturos(db, req.doctorId) > 0
          THEN Respuesta(422, "HasFutureAppointments", db)
          ELSE IF req.activo # JsUndefined /\ ~Castable(req.activo)
          THEN Respuesta(500, "StoreFailure", db)
          ELSE Respuesta(200, "OK",
                   [db EXCEPT !.doctores[req.doctorId] =
                       [@ EXCEPT !.matricula = IF req.matricula # Undefined
                                               THEN req.matricula ELSE @,
                                 !.activo = IF req.activo # JsUndefined
                                            THEN CastBoolean(req.activo) ELSE @]])

(***************************************************************************)
(* getAppointments(req): req = [paciente, doctor, fecha, page, limit,      *)
(* falla, desempate], the query string, Undefined where it has no such     *)
(* key.  The store returns documents of equal fecha in an order of its     *)
(* own: desempate names the one it takes.                                  *)
(***************************************************************************)
\* const { ..., page = 1, limit = 10 } = req.query
PaginaPorDefecto == 1
LimitePorDefecto == 10

\* parseInt(s, 10) of a query string: the number its leading digits spell,
\* NaN when it has none.
Digitos ==
    ("0" :> 0) @@ ("1" :> 1) @@ ("2" :> 2) @@ ("3" :> 3) @@ ("4" :> 4) @@ ("2da" :> 2)

EsNaN(s) == s \notin DOMAIN Digitos

ParseInt(s) == Digitos[s]

\* isNaN(n) || n <= 0 of a parsed query value; the default is a number.
NumeroInvalido(valor) == valor # Undefined /\ (EsNaN(valor) \/ ParseInt(valor) <= 0)

NumeroDe(valor, porDefecto) == IF valor = Undefined THEN porDefecto ELSE ParseInt(valor)

\* isNaN(new Date(fecha)): the date strings that name no date.
FechaInvalida(fecha) == \A i \in 1..Len(Fechas) : Fechas[i] # fecha

\* new Date(fecha) of a date-only string is midnight UTC of that date; the
\* server's clock is UTC.
NewDateSoloFecha(fecha) == IndiceDe(Fechas, fecha) * MinutosPorDia

\* The documents the filter object selects.
Filtrar(db, req) ==
    {i \in DOMAIN db.turnos :
        /\ req.paciente # Undefined => db.turnos[i].paciente = req.paciente
        /\ req.doctor # Undefined => db.turnos[i].doctor = req.doctor
        /\ req.fecha # Undefined =>
               /\ db.turnos[i].fecha >= NewDateSoloFecha(req.fecha)
               /\ db.turnos[i].fecha < NewDateSoloFecha(req.fecha) + MinutosPorDia}

\* The documents in the order of their _id.
RECURSIVE OrdenNatural(_, _, _)
OrdenNatural(db, ids, desempate) ==
    IF ids = {}
    THEN <<>>
    ELSE LET primero == CHOOSE i \in ids : \A j \in ids : i <= j
         IN  <<primero>> \o OrdenNatural(db, ids \ {primero}, desempate)

\* .sort({ fecha: 1 })
RECURSIVE Ordenar(_, _, _)
Ordenar(db, ids, desempate) ==
    IF ids = {}
    THEN <<>>
    ELSE LET primero == CHOOSE i \in ids : \A j \in ids \ {i} :
                            \/ db.turnos[i].fecha < db.turnos[j].fecha
                            \/ /\ db.turnos[i].fecha = db.turnos[j].fecha
                               /\ IF desempate = "asc" THEN i < j ELSE i > j
         IN  <<primero>> \o Ordenar(db, ids \ {primero}, desempate)

\* A skip of whole pages, the requested one among them.
SkipConLaPagina(pageNumber, limitNumber) == pageNumber * limitNumber

\* .skip((pageNumber - 1) * limitNumber)
Skip(pageNumber, limitNumber) == (pageNumber - 1) * limitNumber

\* .skip(n).limit(m) of the sorted documents.
Pagina(ordenados, skip, limit) ==
    SubSeq(ordenados, skip + 1, IF skip + limit < Len(ordenados)
                                THEN skip + limit ELSE Len(ordenados))

\* Math.ceil(totalTurnos / limitNumber)
Ceil(a, b) == (a + b - 1) \div b

\* What a handler that reads hands back: the body of its response too.
Lectura(status, kind, db, cuerpo) ==
    [status |-> status, kind |-> kind, db |-> db, cuerpo |-> cuerpo]

SinCuerpo == [error |-> TRUE]

GetAppointmentsResult(db, req) ==
    IF NumeroInvalido(req.page)
    THEN Lectura(400, "InvalidPagination", db, SinCuerpo)
    ELSE IF NumeroInvalido(req.limit)
    THEN Lectura(400, "InvalidPagination", db, SinCuerpo)
    ELSE IF req.falla = "find"
    THEN Lectura(500, "StoreFailure", db, SinCuerpo)
    ELSE IF req.paciente # Undefined /\ req.paciente \notin DOMAIN db.pacientes
    THEN Lectura(404, "NotFound", db, SinCuerpo)
    ELSE IF req.doctor # Undefined /\ req.doctor \notin DOMAIN db.doctores
    THEN Lectura(404, "NotFound", db, SinCuerpo)
    ELSE IF req.fecha # Undefined /\ FechaInvalida(req.fecha)
    THEN Lectura(400, "InvalidDate", db, SinCuerpo)
    ELSE
      LET pageNumber  == NumeroDe(req.page, PaginaPorDefecto)
          limitNumber == NumeroDe(req.limit, LimitePorDefecto)
          ids         == Filtrar(db, req)
          totalTurnos == Cardinality(ids)
          pagina      == Pagina(Ordenar(db, ids, req.desempate),
                                Skip(pageNumber, limitNumber), limitNumber)
      IN  IF Len(pagina) = 0
          THEN Lectura(404, "NotFound", db, SinCuerpo)
          ELSE Lectura(200, "OK", db,
                       [turnos       |-> pagina,
                        totalTurnos  |-> totalTurnos,
                        totalPaginas |-> Ceil(totalTurnos, limitNumber),
                        paginaActual |-> pageNumber])

(***************************************************************************)
(* getAppointmentById(req): req = [params, falla].  params is what the     *)
(* route binds: GET '/:turnoId' binds the path segment to turnoId.         *)
(***************************************************************************)
ParamsDeRuta(segmento) == [turnoId |-> segmento]

\* req.params[nombre]; a name the route does not bind gives undefined, and
\* findById(undefined) asks for _id null, which IdAusente stands for.
Param(params, nombre) == IF nombre \in DOMAIN params THEN params[nombre] ELSE IdAusente

GetAppointmentByIdResult(db, req) ==
    LET turnoId == Param(req.params, "id")
    IN  IF req.falla = "find"
        THEN Lectura(500, "StoreFailure", db, SinCuerpo)
        ELSE IF turnoId \notin DOMAIN db.turnos
        THEN Lectura(404, "NotFound", db, SinCuerpo)
        ELSE Lectura(200, "OK", db, [turno |-> db.turnos[turnoId]])

(***************************************************************************)
(* createPatient(req) and createDoctor(req): req = [valido, dni] and       *)
(* [valido, matricula].  Each handler makes two store calls, findOne and   *)
(* save, and another request may be served between them.  The collections  *)
(* have a unique index on dni and on matricula.                            *)
(***************************************************************************)
\* The ids the store gives to new documents, in order.
NuevosPacientes == <<"p3", "p4", "p5", "p6">>

NuevosDoctores == <<"d3", "d4", "d5", "d6">>

NuevoId(pool, usados) ==
    pool[CHOOSE k \in 1..Len(pool) :
            pool[k] \notin usados /\ \A j \in 1..(k - 1) : pool[j] \in usados]

\* Patient.findOne({ dni }) and Doctor.findOne({ matricula }) find a document.
PacienteConDni(db, dni) == \E p \in DOMAIN db.pacientes : db.pacientes[p].dni = dni

DoctorConMatricula(db, matricula) ==
    \E d \in DOMAIN db.doctores : db.doctores[d].matricula = matricula

\* Up to the pre-check; "sigue" when the handler goes on to save.
CreatePatientFindResult(db, req) ==
    IF ~req.valido
    THEN Respuesta(422, "InvalidData", db)
    ELSE IF PacienteConDni(db, req.dni)
    THEN Respuesta(422, "DuplicateKey", db)
    ELSE Respuesta(0, "sigue", db)

\* newPatient.save() and what follows: the unique index (and the unique
\* validator before it) rejects a dni a document holds, and the rejection
\* lands in the handler's catch.
CreatePatientSaveResult(db, req, id) ==
    IF PacienteConDni(db, req.dni)
    THEN Respuesta(500, "StoreFailure", db)
    ELSE Respuesta(201, "Created",
                   [db EXCEPT !.pacientes = @ @@ (id :> [dni |-> req.dni, turnos |-> <<>>])])

CreateDoctorFindResult(db, req) ==
    IF ~req.valido
    THEN Respuesta(422, "InvalidData", db)
    ELSE IF DoctorConMatricula(db, req.matricula)
    THEN Respuesta(422, "DuplicateKey", db)
    ELSE Respuesta(0, "sigue", db)

\* nuevoDoctor.save() and what follows; activo takes the schema's default.
CreateDoctorSaveResult(db, req, id) ==
    IF DoctorConMatricula(db, req.matricula)
    THEN Respuesta(500, "StoreFailure", db)
    ELSE Respuesta(201, "Created",
                   [db EXCEPT !.doctores =
                       @ @@ (id :> [matricula |-> req.matricula, activo |-> TRUE,
                                    turnos |-> <<>>])])

(***************************************************************************)
(* verificarDisponibilidad(doctorId, fecha, hora), a static of the         *)
(* appointment model.  fecha is what the caller has: the date string of a  *)
(* request body, or a Date.  An argument after hora is not a parameter of  *)
(* the function.                                                           *)
(***************************************************************************)
JsDate(instante) == [type |-> "date", value |-> instante]

\* new Date(fecha): of a Date, the same instant; of a date-only string,
\* midnight of that date.
NewDateDe(fecha) ==
    IF fecha.type = "date" THEN fecha.value ELSE NewDateSoloFecha(fecha.value)

\* countDocuments({ doctor: doctorId, fecha: new Date(fecha), hora: hora,
\*                  estado: { $ne: 'cancelado' } }) === 0
VerificarDisponibilidad(db, doctorId, fecha, hora) ==
    Cardinality({i \in DOMAIN db.turnos :
                    /\ db.turnos[i].doctor = doctorId
                    /\ db.turnos[i].fecha = NewDateDe(fecha)
                    /\ db.turnos[i].hora = hora
                    /\ db.turnos[i].estado # "cancelado"}) = 0

(***************************************************************************)
(* createAppointment one store call at a time: the lookups and the count   *)
(* of the day, then, in a later turn of the event loop, the save.          *)
(***************************************************************************)
\* What the handler has decided when countDocuments has answered.
CreateAppointmentCheckResult(db, req) ==
    IF ~req.valido
    THEN Respuesta(422, "InvalidData", db)
    ELSE IF req.falla = "find"
    THEN Respuesta(500, "StoreFailure", db)
    ELSE IF req.paciente \notin DOMAIN db.pacientes
    THEN Respuesta(404, "NotFound", db)
    ELSE IF req.doctor \notin DOMAIN db.doctores
    THEN Respuesta(404, "NotFound", db)
    ELSE IF req.falla = "count"
    THEN Respuesta(500, "StoreFailure", db)
    ELSE IF DailyCount(db, req.doctor, NewDate(req.fecha, req.hora)) >= CupoCrear
    THEN Respuesta(400, "CapacityExceeded", db)
    ELSE Respuesta(0, "sigue", db)

\* A save that counts the day again and inserts only under the cap.
CreateAppointmentSaveConCupo(db, req) ==
    IF req.falla = "save"
    THEN Respuesta(500, "StoreFailure", db)
    ELSE IF DailyCount(db, req.doctor, NewDate(req.fecha, req.hora)) >= CupoCrear
    THEN Respuesta(400, "CapacityExceeded", db)
    ELSE Respuesta(201, "Created",
                   [db EXCEPT !.turnos = Append(@, NuevoTurno(req))])

\* await nuevoTurno.save(), against the store of that moment.
CreateAppointmentSaveResult(db, req) ==
    IF req.falla = "save"
    THEN Respuesta(500, "StoreFailure", db)
    ELSE Respuesta(201, "Created",
                   [db EXCEPT !.turnos = Append(@, NuevoTurno(req))])

(***************************************************************************)
(* editAppointment one store call at a time.  A store call is recorded     *)
(* with the session option it was given and with whether it ran after      *)
(* startTransaction.  The writes of a transaction are staged and reach the *)
(* store at its commit, path by path.                                      *)
(***************************************************************************)
Llamada(nombre, sesion, dentro) == [call |-> nombre, session |-> sesion, dentro |-> dentro]

\* The paths a transaction wrote, over the store of the moment of its commit.
FusionDeCampos(actual, base, staged) ==
    [f \in DOMAIN actual |-> IF staged[f] # base[f] THEN staged[f] ELSE actual[f]]

Fusion(actual, base, staged) ==
    [turnos |->
        [i \in DOMAIN actual.turnos |->
            IF i \in DOMAIN base.turnos
            THEN FusionDeCampos(actual.turnos[i], base.turnos[i], staged.turnos[i])
            ELSE actual.turnos[i]],
     pacientes |->
        [p \in DOMAIN actual.pacientes |->
            IF p \in DOMAIN base.pacientes /\ staged.pacientes[p] # base.pacientes[p]
            THEN staged.pacientes[p] ELSE actual.pacientes[p]],
     doctores |->
        [d \in DOMAIN actual.doctores |->
            IF d \in DOMAIN base.doctores /\ staged.doctores[d] # base.doctores[d]
            THEN staged.doctores[d] ELSE actual.doctores[d]]]

\* The appointments a transaction has written.
Escritos(base, staged) ==
    {i \in DOMAIN base.turnos : staged.turnos[i] # base.turnos[i]}

\* The calls of the change of patient and of the change of doctor: the
\* lookup of the new document and, when it is found, the pull and the push.
LlamadasDePaciente(turno, req, fin) ==
    IF req.paciente = Undefined \/ turno.paciente = req.paciente THEN {}
    ELSE {Llamada("Paciente.findById", FALSE, TRUE)}
         \cup (IF fin = "sigue" THEN {Llamada("Paciente.updateOne", TRUE, TRUE)} ELSE {})

LlamadasDeDoctor(turno, req, fin) ==
    IF req.doctor = Undefined \/ turno.doctor = req.doctor THEN {}
    ELSE {Llamada("Doctor.findById", FALSE, TRUE)}
         \cup (IF fin = "sigue" THEN {Llamada("Doctor.updateOne", TRUE, TRUE)} ELSE {})

(***************************************************************************)
(* deletePatient(req): req = [patientId, falla].                           *)
(***************************************************************************)
DeletePatientResult(db, req) ==
    IF req.falla = "find"
    THEN Respuesta(500, "StoreFailure", db)
    ELSE IF req.patientId \notin DOMAIN db.pacientes
    THEN Respuesta(404, "NotFound", db)
    ELSE IF req.falla = "delete"
    THEN Respuesta(500, "StoreFailure", db)
    ELSE Respuesta(200, "OK",
                   [db EXCEPT !.pacientes =
                       [p \in DOMAIN db.pacientes \ {req.patientId} |-> db.pacientes[p]]])

(***************************************************************************)
(* Password recovery: forgotPassword, verifyResetToken, resetPassword.     *)
(* A user is [email, password, activo, resetPasswordToken]; a token is     *)
(* what jwt.sign makes of a payload, a secret and the second of the clock. *)
(***************************************************************************)
IdsUsuario == {"u1", "u2", "u3"}

EmailDe == [u \in IdsUsuario |-> u \o "@clinica.test"]

\* The seconds a token lives, and the shortest password the route accepts.
UnaHora == 3600
UnDia == 86400
MinLargoPassword == 6

Secreto == "secreto123"

\* The pre-save hook: a changed password is stored hashed.
Hash(password) == [bcrypt |-> password.texto]

\* jwt.sign: the token is a function of the payload, the secret and the
\* second it is signed in (iat), with exp = iat + expiresIn.
Sign(payload, secret, expiresIn, ahora) ==
    [payload |-> payload, iat |-> ahora, exp |-> ahora + expiresIn, secreto |-> secret]

ResetPayload(u) == [userId |-> u, email |-> EmailDe[u], action |-> "password-reset"]

\* The token generateAuthToken signs at login: its payload has no action.
AuthPayload(u) == [userId |-> u, email |-> EmailDe[u], action |-> Undefined]

\* The field resetPasswordToken when it is unset: no token signed equals it.
SinToken ==
    [payload |-> [userId |-> Undefined, email |-> Undefined, action |-> Undefined],
     iat |-> 0, exp |-> 0, secreto |-> Undefined]

\* jwt.verify throws on a token of another secret and on an expired one.
VerifyThrows(token, secret, ahora) ==
    \/ token.secreto # secret
    \/ ahora >= token.exp

\* User.findOne({_id, resetPasswordToken: token, activo: true}).
UsuarioConToken(us, token) ==
    {u \in DOMAIN us : /\ u = token.payload.userId
                       /\ us[u].resetPasswordToken = token
                       /\ us[u].activo}

\* User.findOne({email, activo: true}).
UsuarioConEmail(us, email) ==
    {u \in DOMAIN us : us[u].email = email /\ us[u].activo}

\* What a handler of the accounts hands back: the status, the kind of
\* outcome, the users and the token mailed, if any.
Cuenta(status, kind, us, enviado) ==
    [status |-> status, kind |-> kind, usuarios |-> us, enviado |-> enviado]

ForgotPasswordResult(us, ahora, req) ==
    LET found == UsuarioConEmail(us, req.email)
    IN  IF found = {} THEN Cuenta(404, "NotFound", us, SinToken)
        ELSE LET u == CHOOSE x \in found : TRUE
                 token == Sign(ResetPayload(u), Secreto, UnaHora, ahora)
             IN  IF req.envio = "falla"
                 THEN Cuenta(500, "MailFailure",
                             [us EXCEPT ![u].resetPasswordToken = SinToken], SinToken)
                 ELSE Cuenta(200, "Ok", [us EXCEPT ![u].resetPasswordToken = token], token)

VerifyResetTokenResult(us, ahora, req) ==
    IF VerifyThrows(req.token, Secreto, ahora)
    THEN Cuenta(400, "InvalidOrExpired", us, SinToken)
    ELSE IF req.token.payload.action # "password-reset"
    THEN Cuenta(400, "Invalid", us, SinToken)
    ELSE IF UsuarioConToken(us, req.token) = {}
    THEN Cuenta(400, "InvalidOrNoUser", us, SinToken)
    ELSE Cuenta(200, "Ok", us, SinToken)

ResetPasswordResult(us, ahora, req) ==
    IF req.password.largo < MinLargoPassword
    THEN Cuenta(422, "Validation", us, SinToken)
    ELSE IF VerifyThrows(req.token, Secreto, ahora)
    THEN Cuenta(400, "InvalidOrExpired", us, SinToken)
    ELSE IF req.token.payload.action # "password-reset"
    THEN Cuenta(400, "Invalid", us, SinToken)
    ELSE IF UsuarioConToken(us, req.token) = {}
    THEN Cuenta(400, "InvalidOrNoUser", us, SinToken)
    ELSE LET u == CHOOSE x \in UsuarioConToken(us, req.token) : TRUE
         IN  Cuenta(200, "Ok",
                    [us EXCEPT ![u].password = Hash(req.password),
                               ![u].resetPasswordToken = SinToken],
                    SinToken)

(***************************************************************************)
(* The requests the model sends.                                           *)
(***************************************************************************)
\* The slots requests ask for: one a seeded appointment holds, one free on
\* the seeded day, one on the next day.
Slots == {<<Fechas[1], HorasDelDia[1]>>, <<Fechas[1], HorasDelDia[11]>>,
          <<Fechas[2], HorasDelDia[1]>>}

\* A store call throws only in requests of this shape: where it throws
\* decides the outcome, the rest of the request does not.
CreateRequests ==
    {[valido |-> TRUE, paciente |-> p, doctor |-> d, fecha |-> s[1], hora |-> s[2],
      estado |-> e, falla |-> "none"] :
        p \in {"p1", PacienteAusente}, d \in IdsDoctor \cup {DoctorAusente},
        s \in Slots, e \in {Undefined, "cancelado"}}
    \cup
    {[valido |-> v, paciente |-> "p1", doctor |-> "d1", fecha |-> s[1], hora |-> s[2],
      estado |-> Undefined, falla |-> f] :
        v \in BOOLEAN, s \in Slots, f \in {"find", "count", "save"}}
    \cup
    {[valido |-> FALSE, paciente |-> "p1", doctor |-> "d1", fecha |-> Fechas[1],
      hora |-> HorasDelDia[1], estado |-> Undefined, falla |-> "none"]}

\* The appointments requests edit: those created by a request.
EditIds(n, k) == {i \in 1..n : i > n - k}

\* A store call throws, or the id names no appointment, or the body has a
\* key that is no field of an appointment, only in requests of these shapes.
EditRequests(ids) ==
    {[id |-> i, paciente |-> p, doctor |-> d, fecha |-> s[1], hora |-> s[2],
      estado |-> e, falla |-> "none"] :
        i \in ids, p \in IdsPaciente \cup {Undefined, PacienteAusente},
        d \in IdsDoctor \cup {Undefined, DoctorAusente},
        s \in Slots \cup {<<Undefined, Undefined>>},
        e \in {Undefined, "confirmado", "cancelado"}}
    \cup
    {[id |-> i, paciente |-> p, doctor |-> Undefined, fecha |-> s[1], hora |-> s[2],
      estado |-> e, falla |-> f] :
        i \in ids, p \in {Undefined, "p2"},
        s \in {<<Fechas[2], HorasDelDia[1]>>, <<Undefined, Undefined>>},
        e \in {Undefined, "cancelado"}, f \in {"find", "save", "commit"}}
    \cup
    {[id |-> IdAusente, paciente |-> p, doctor |-> Undefined, fecha |-> s[1],
      hora |-> s[2], estado |-> e, falla |-> "none"] :
        p \in {Undefined, "p2"},
        s \in {<<Fechas[2], HorasDelDia[1]>>, <<Undefined, Undefined>>},
        e \in {Undefined, "cancelado"}}
    \cup
    {[id |-> i, paciente |-> Undefined, doctor |-> Undefined, fecha |-> Undefined,
      hora |-> Undefined, estado |-> e, falla |-> "none", observaciones |-> "control"] :
        i \in ids \cup {IdAusente}, e \in {Undefined, "cancelado"}}

\* Listings: every filter with every page of one, three, four and ten per
\* page; a query that is refused or whose store call throws is of one of
\* the shapes of the second set.
ListRequests ==
    {[paciente |-> p, doctor |-> d, fecha |-> f, page |-> n, limit |-> m,
      falla |-> "none", desempate |-> o] :
        p \in {Undefined, "p1", "p2"}, d \in {Undefined, "d1"},
        f \in {Undefined, Fechas[1]}, n \in {Undefined, "2", "3"},
        m \in {Undefined, "1", "3", "4"}, o \in {"asc", "desc"}}
    \cup
    {[paciente |-> x[1], doctor |-> x[2], fecha |-> x[3], page |-> x[4], limit |-> x[5],
      falla |-> x[6], desempate |-> "asc"] :
        x \in {<<PacienteAusente, Undefined, Undefined, Undefined, Undefined, "none">>,
               <<Undefined, DoctorAusente, Undefined, Undefined, Undefined, "none">>,
               <<Undefined, Undefined, "10/03/2025", Undefined, Undefined, "none">>,
               <<Undefined, Undefined, Undefined, "0", Undefined, "none">>,
               <<Undefined, Undefined, Undefined, "dos", Undefined, "none">>,
               <<Undefined, Undefined, Undefined, "2da", "4", "none">>,
               <<Undefined, Undefined, Undefined, Undefined, "0", "none">>,
               <<Undefined, Undefined, Undefined, Undefined, "todos", "none">>,
               <<Undefined, Undefined, Undefined, Undefined, Undefined, "find">>}}

\* GET '/:turnoId' for each path segment: the ids of the store, and one
\* that names no appointment.
GetByIdRequests(n) ==
    {[params |-> ParamsDeRuta(i), falla |-> f] :
        i \in (1..n) \cup {IdAusente}, f \in {"none", "find"}}

\* Registrations: with a dni or matricula a seeded document holds, and with
\* new ones.
PatientRequests ==
    {[valido |-> TRUE, dni |-> n] : n \in {DniDe["p1"], "30555666", "30777888"}}
    \cup {[valido |-> FALSE, dni |-> "30555666"]}

DoctorRequests ==
    {[valido |-> TRUE, matricula |-> m] : m \in {MatriculaDe["d1"], "MN-2001"}}
    \cup {[valido |-> FALSE, matricula |-> "MN-2001"]}

\* Calls of verificarDisponibilidad: for each doctor and slot, with the date
\* as the body's string and as the Date of the slot, and with the id of an
\* appointment to leave out or none.
DisponibilidadRequests(n) ==
    {[doctor |-> d,
      fecha  |-> IF f = "date" THEN JsDate(NewDate(s[1], s[2])) ELSE JsString(s[1]),
      hora   |-> s[2], excluir |-> x] :
        d \in IdsDoctor, s \in Slots, f \in {"string", "date"},
        x \in {IdAusente} \cup {i \in {1, n} : i <= n}}

\* The users of the start: two active, one inactive, none with a link.
UsuariosIniciales ==
    [u \in IdsUsuario |->
        [email |-> EmailDe[u],
         password |-> [bcrypt |-> "inicial-" \o u],
         activo |-> u # "u3",
         resetPasswordToken |-> SinToken]]

\* Requests for a link: by a user's mail or by an unknown one, with the
\* mail service working or failing.
ForgotRequests ==
    {[email |-> e, envio |-> v] :
        e \in {EmailDe[u] : u \in IdsUsuario} \cup {"nadie@clinica.test"},
        v \in {"ok", "falla"}}

\* The tokens a client presents: the links mailed so far, a session token
\* and a reset token signed with another secret.
TokensPresentados(enviados, ahora) ==
    enviados \cup {Sign(AuthPayload("u1"), Secreto, UnDia, 0),
                   Sign(ResetPayload("u1"), "otro-secreto", UnaHora, 0)}

PasswordsPedidas ==
    {[texto |-> "nueva-1", largo |-> 7], [texto |-> "nueva-2", largo |-> 7],
     [texto |-> "abc", largo |-> 3]}

\* The creations that run concurrently: of patient p1, for a doctor or for
\* none, with the save working or throwing.
CreateRequestsCarrera ==
    {r \in CreateRequests : r.paciente = "p1" /\ r.falla \in {"none", "save"}}

\* The edits that run concurrently: of the first two appointments, of the
\* slot, the state or the patient, with a store call throwing or none.
EditRequestsCarrera ==
    {[id |-> i, paciente |-> Undefined, doctor |-> Undefined, fecha |-> s[1],
      hora |-> s[2], estado |-> e, falla |-> "none"] :
        i \in {1, 2}, s \in Slots \cup {<<Undefined, Undefined>>},
        e \in {Undefined, "cancelado"}}
    \cup
    {[id |-> i, paciente |-> p, doctor |-> d, fecha |-> Undefined,
      hora |-> Undefined, estado |-> Undefined, falla |-> "none"] :
        i \in {1, IdAusente}, p \in {Undefined, "p2", PacienteAusente},
        d \in {Undefined, "d2"}}
    \cup
    {[id |-> 1, paciente |-> Undefined, doctor |-> Undefined, fecha |-> Fechas[2],
      hora |-> HorasDelDia[1], estado |-> Undefined, falla |-> f] :
        f \in {"find", "save", "commit"}}

\* PATCH '/:turnoId/estado' for each path segment and each state to set.
PatchEstadoRequests(n) ==
    {[params |-> ParamsDeRuta(i), estado |-> e] :
        i \in (1..n) \cup {IdAusente}, e \in {"confirmado", "cancelado", "completado"}}

\* Deletions of a patient: of a stored one and of one that is not.
DeletePatientRequests ==
    {[patientId |-> p, falla |-> f] :
        p \in IdsPaciente \cup {PacienteAusente}, f \in {"none", "find", "delete"}}

\* Updates of a doctor: of the active flag, as a boolean and as the string a
\* form sends, and of the matricula to the one d1 holds.
UpdateDoctorRequests ==
    {[doctorId |-> d, matricula |-> m, activo |-> a] :
        d \in IdsDoctor \cup {DoctorAusente},
        m \in {Undefined, MatriculaDe["d1"]},
        a \in {JsUndefined, JsBoolean(TRUE), JsBoolean(FALSE), JsString("false"),
               JsString("baja")}}

(***************************************************************************)
(* The initial stores: the empty one, and the ones left by a run of        *)
(* createAppointment calls for doctor d1 on the first day, one per hour,   *)
(* nConf of them confirmed and then nPend pending.                         *)
(***************************************************************************)
Vacia ==
    [turnos    |-> <<>>,
     pacientes |-> [p \in IdsPaciente |-> [dni |-> DniDe[p], turnos |-> <<>>]],
     doctores  |-> [d \in IdsDoctor |->
                       [matricula |-> MatriculaDe[d], activo |-> TRUE, turnos |-> <<>>]]]

SeedRequest(i, estado) ==
    [valido |-> TRUE, paciente |-> "p1", doctor |-> "d1", fecha |-> Fechas[1],
     hora |-> HorasDelDia[i], estado |-> estado, falla |-> "none"]

RECURSIVE Sembrar(_, _, _, _)
Sembrar(db, i, nConf, nPend) ==
    IF i > nConf + nPend
    THEN db
    ELSE Sembrar(CreateAppointmentResult(
                     db, SeedRequest(i, IF i <= nConf THEN "confirmado" ELSE "pendiente")).db,
                 i + 1, nConf, nPend)

Semillas ==
    {<<0, 0>>, <<CupoCrear, 0>>,
     <<CupoCrear - 1, CupoEditar - CupoCrear>>,
     <<CupoCrear - 1, CupoEditar - CupoCrear + 1>>}

NoRes == [op |-> "none"]

\* The clients whose requests are handled one store call at a time, and a
\* client with no request under way.
Clientes == {"c1", "c2"}

Ocioso == [pc |-> "idle"]

Init ==
    /\ \E s \in Semillas :
          LET db == Sembrar(Vacia, 1, s[1], s[2])
          IN  /\ turnos = db.turnos
              /\ pacientes = db.pacientes
              /\ doctores = db.doctores
    /\ creados = 0
    /\ res = NoRes
    /\ enCurso = [c \in Clientes |-> Ocioso]
    /\ usuarios = UsuariosIniciales
    /\ reloj = 0
    /\ emitidos = {}
    /\ gastados = {}

\* The handler ran: the store is the one it left, the response is in flight.
Responder(op, req, r) ==
    /\ turnos' = r.db.turnos
    /\ pacientes' = r.db.pacientes
    /\ doctores' = r.db.doctores
    /\ res' = [op |-> op, req |-> req, status |-> r.status, kind |-> r.kind, antes |-> DB]
    /\ UNCHANGED <<enCurso, cuentas>>

CreateAppointment ==
    /\ res = NoRes
    /\ creados < MaxNuevos
    /\ \E req \in CreateRequests :
          LET r == CreateAppointmentResult(DB, req)
          IN  /\ Responder("create", req, r)
              /\ creados' = IF r.status = 201 THEN creados + 1 ELSE creados

EditAppointment ==
    /\ res = NoRes
    /\ \E req \in EditRequests(EditIds(Len(turnos), creados)) :
          /\ Responder("edit", req, EditAppointmentResult(DB, req))
          /\ creados' = creados

\* The client received the response.
Deliver ==
    /\ res # NoRes
    /\ res' = NoRes
    /\ UNCHANGED <<turnos, pacientes, doctores, creados, enCurso, cuentas>>

Next == CreateAppointment \/ EditAppointment \/ Deliver

Spec == Init /\ [][Next]_vars

(***************************************************************************)
(* The appointment handlers next to updateDoctor.                          *)
(***************************************************************************)
UpdateDoctor ==
    /\ res = NoRes
    /\ \E req \in UpdateDoctorRequests :
          /\ Responder("updateDoctor", req, UpdateDoctorResult(DB, req))
          /\ creados' = creados

NextDoctores == UpdateDoctor \/ CreateAppointment \/ EditAppointment \/ Deliver

SpecDoctores == Init /\ [][NextDoctores]_vars

(***************************************************************************)
(* Registration of patients and doctors by two clients at once.            *)
(***************************************************************************)
\* Registrations the model accepts of each kind.
MaxRegistros == 2

InitRegistro == Init /\ turnos = <<>>

\* The handler of client c answered: the response is in flight, with the
\* store as its last store call found it.
Terminado(op, req, r) ==
    [pc |-> "done", op |-> op, req |-> req, status |-> r.status, kind |-> r.kind,
     antes |-> DB]

Guardando(op, req) == [pc |-> "save", op |-> op, req |-> req]

\* Documents registered, and registrations between their two store calls.
Registrados(coleccion, sembrados) == Cardinality(DOMAIN coleccion \ sembrados)

PorGuardar(op) == Cardinality({c \in Clientes : enCurso[c].pc = "save" /\ enCurso[c].op = op})

CreatePatientFind(c) ==
    /\ enCurso[c] = Ocioso
    /\ Registrados(pacientes, IdsPaciente) + PorGuardar("createPatient") < MaxRegistros
    /\ \E req \in PatientRequests :
          LET r == CreatePatientFindResult(DB, req)
          IN  enCurso' = [enCurso EXCEPT ![c] =
                             IF r.kind = "sigue"
                             THEN Guardando("createPatient", req)
                             ELSE Terminado("createPatient", req, r)]
    /\ UNCHANGED <<turnos, pacientes, doctores, creados, res, cuentas>>

CreatePatientSave(c) ==
    /\ enCurso[c].pc = "save"
    /\ enCurso[c].op = "createPatient"
    /\ LET r == CreatePatientSaveResult(DB, enCurso[c].req,
                                        NuevoId(NuevosPacientes, DOMAIN pacientes))
       IN  /\ pacientes' = r.db.pacientes
           /\ enCurso' = [enCurso EXCEPT ![c] = Terminado("createPatient", @.req, r)]
    /\ UNCHANGED <<turnos, doctores, creados, res, cuentas>>

CreateDoctorFind(c) ==
    /\ enCurso[c] = Ocioso
    /\ Registrados(doctores, IdsDoctor) + PorGuardar("createDoctor") < MaxRegistros
    /\ \E req \in DoctorRequests :
          LET r == CreateDoctorFindResult(DB, req)
          IN  enCurso' = [enCurso EXCEPT ![c] =
                             IF r.kind = "sigue"
                             THEN Guardando("createDoctor", req)
                             ELSE Terminado("createDoctor", req, r)]
    /\ UNCHANGED <<turnos, pacientes, doctores, creados, res, cuentas>>

CreateDoctorSave(c) ==
    /\ enCurso[c].pc = "save"
    /\ enCurso[c].op = "createDoctor"
    /\ LET r == CreateDoctorSaveResult(DB, enCurso[c].req,
                                       NuevoId(NuevosDoctores, DOMAIN doctores))
       IN  /\ doctores' = r.db.doctores
           /\ enCurso' = [enCurso EXCEPT ![c] = Terminado("createDoctor", @.req, r)]
    /\ UNCHANGED <<turnos, pacientes, creados, res, cuentas>>

\* Client c received the response.
Recibir(c) ==
    /\ enCurso[c].pc = "done"
    /\ enCurso' = [enCurso EXCEPT ![c] = Ocioso]
    /\ UNCHANGED <<turnos, pacientes, doctores, creados, res, cuentas>>

NextRegistro ==
    \E c \in Clientes :
        \/ CreatePatientFind(c)
        \/ CreatePatientSave(c)
        \/ CreateDoctorFind(c)
        \/ CreateDoctorSave(c)
        \/ Recibir(c)

SpecRegistro == InitRegistro /\ [][NextRegistro]_vars

(***************************************************************************)
(* The handlers that read, next to createAppointment.                      *)
(***************************************************************************)
\* A handler that reads ran: the response and its body are in flight.
ResponderLectura(op, req, r) ==
    /\ turnos' = r.db.turnos
    /\ pacientes' = r.db.pacientes
    /\ doctores' = r.db.doctores
    /\ res' = [op |-> op, req |-> req, status |-> r.status, kind |-> r.kind,
               antes |-> DB, cuerpo |-> r.cuerpo]
    /\ UNCHANGED <<creados, enCurso, cuentas>>

GetAppointments ==
    /\ res = NoRes
    /\ \E req \in ListRequests :
          ResponderLectura("list", req, GetAppointmentsResult(DB, req))

GetAppointmentById ==
    /\ res = NoRes
    /\ \E req \in GetByIdRequests(Len(turnos)) :
          ResponderLectura("get", req, GetAppointmentByIdResult(DB, req))

NextLectura == CreateAppointment \/ GetAppointments \/ GetAppointmentById \/ Deliver

SpecLectura == Init /\ [][NextLectura]_vars

(***************************************************************************)
(* verificarDisponibilidad next to createAppointment.                      *)
(***************************************************************************)
ConsultarDisponibilidad ==
    /\ res = NoRes
    /\ \E req \in DisponibilidadRequests(Len(turnos)) :
          ResponderLectura("disponibilidad", req,
              Lectura(200, "OK", DB,
                      [libre |-> VerificarDisponibilidad(DB, req.doctor, req.fecha,
                                                         req.hora)]))

NextDisponibilidad == CreateAppointment \/ ConsultarDisponibilidad \/ Deliver

SpecDisponibilidad == Init /\ [][NextDisponibilidad]_vars

(***************************************************************************)
(* Concurrent createAppointment calls.  A call between its count and its   *)
(* save remembers the count it read.                                       *)
(***************************************************************************)
MaxCarrera == 2

GuardandoTurno(req, leidos) ==
    [pc |-> "save", op |-> "createAppointment", req |-> req, leidos |-> leidos]

TerminadoTurno(req, r, leidos) ==
    [pc |-> "done", op |-> "createAppointment", req |-> req, status |-> r.status,
     kind |-> r.kind, antes |-> DB, leidos |-> leidos]

CreateAppointmentCheck(c) ==
    /\ enCurso[c] = Ocioso
    /\ creados < MaxCarrera
    /\ \E req \in CreateRequestsCarrera :
          LET r == CreateAppointmentCheckResult(DB, req)
              leidos == IF req.doctor \in DOMAIN doctores
                        THEN DailyCount(DB, req.doctor, NewDate(req.fecha, req.hora))
                        ELSE 0
          IN  enCurso' = [enCurso EXCEPT ![c] =
                             IF r.kind = "sigue"
                             THEN GuardandoTurno(req, leidos)
                             ELSE TerminadoTurno(req, r, leidos)]
    /\ creados' = creados + 1
    /\ UNCHANGED <<turnos, pacientes, doctores, res, cuentas>>

CreateAppointmentSave(c) ==
    /\ enCurso[c].pc = "save"
    /\ enCurso[c].op = "createAppointment"
    /\ LET r == CreateAppointmentSaveResult(DB, enCurso[c].req)
       IN  /\ turnos' = r.db.turnos
           /\ enCurso' = [enCurso EXCEPT ![c] = TerminadoTurno(@.req, r, @.leidos)]
    /\ UNCHANGED <<pacientes, doctores, creados, res, cuentas>>

NextCarrera ==
    \E c \in Clientes :
        \/ CreateAppointmentCheck(c)
        \/ CreateAppointmentSave(c)
        \/ Recibir(c)

SpecCarrera == Init /\ [][NextCarrera]_vars

(***************************************************************************)
(* Concurrent editAppointment calls.  creados numbers the calls; a call    *)
(* keeps the appointment it loaded, its transaction's state and staged     *)
(* writes, the store calls it made and what it has released and answered.  *)
(***************************************************************************)
MaxEdiciones == 2

\* The stores edits start from: two appointments, and a day with eleven.
SemillasEdicion == {<<2, 0>>, <<CupoCrear - 1, CupoEditar - CupoCrear + 2>>}

InitEdicion ==
    /\ \E s \in SemillasEdicion :
          LET db == Sembrar(Vacia, 1, s[1], s[2])
          IN  /\ turnos = db.turnos
              /\ pacientes = db.pacientes
              /\ doctores = db.doctores
    /\ creados = 0
    /\ res = NoRes
    /\ enCurso = [c \in Clientes |-> Ocioso]
    /\ usuarios = UsuariosIniciales
    /\ reloj = 0
    /\ emitidos = {}
    /\ gastados = {}

EnMarcha(c) == enCurso[c].pc \notin {"idle", "done", "rejected"}

Editando(req, n, concurrentes) ==
    [pc |-> "load", op |-> "edit", req |-> req, n |-> n, concurrentes |-> concurrentes,
     turno |-> NuevoTurno(SeedRequest(1, "pendiente")), base |-> Vacia, staged |-> Vacia,
     log |-> {}, txn |-> "none", commits |-> 0, aborts |-> 0, ends |-> 0,
     outcomes |-> 0, status |-> 0, kind |-> "sigue", antes |-> DB]

\* The handler answered: res.status(...).json or next(new HttpError(...)).
Contesta(e, status, kind) ==
    [e EXCEPT !.pc = "done", !.status = status, !.kind = kind, !.outcomes = @ + 1,
              !.base = Vacia, !.staged = Vacia]

\* The handler goes on to a branch that aborts and answers status.
Aborta(e, status, kind) == [e EXCEPT !.pc = "abort", !.status = status, !.kind = kind]

SoloEnCurso == UNCHANGED <<turnos, pacientes, doctores, res, cuentas>>

\* The request arrives; Appointment.findById(id) with its populates.
EditLoad(c) ==
    /\ enCurso[c] = Ocioso
    /\ creados < MaxEdiciones
    /\ \E req \in EditRequestsCarrera :
          LET e == [Editando(req, creados + 1,
                             {enCurso[o].n : o \in {x \in Clientes : EnMarcha(x)}})
                       EXCEPT !.log = {Llamada("Appointment.findById", FALSE, FALSE)}]
          IN  enCurso' = [enCurso EXCEPT ![c] =
                 IF ~(\A campo \in Actualizaciones(req) : campo \in CamposPermitidos)
                 THEN Contesta([e EXCEPT !.log = {}], 400, "InvalidUpdate")
                 ELSE IF req.falla = "find"
                 THEN Contesta(e, 500, "StoreFailure")
                 ELSE IF req.id \notin DOMAIN turnos
                 THEN Contesta(e, 404, "NotFound")
                 ELSE [e EXCEPT !.pc = "slot", !.turno = turnos[req.id]]]
    /\ creados' = creados + 1
    /\ SoloEnCurso

\* startSession, startTransaction and the lookup of the slot.
EditSlot(c) ==
    /\ enCurso[c].pc = "slot"
    /\ LET e == [enCurso[c] EXCEPT
                    !.txn = "active",
                    !.log = @ \cup {Llamada("Appointment.findOne", FALSE, TRUE)}]
           idDoctor == IdDoctor(e.turno, e.req)
           nuevaFecha == NuevaFecha(e.turno, e.req)
       IN  enCurso' = [enCurso EXCEPT ![c] =
              IF TurnoExistente(DB, idDoctor, nuevaFecha, e.req.id)
              THEN Aborta(e, 400, "SlotConflict")
              ELSE [e EXCEPT !.pc = "count"]]
    /\ UNCHANGED creados
    /\ SoloEnCurso

\* The count of the day.
EditCount(c) ==
    /\ enCurso[c].pc = "count"
    /\ LET e == [enCurso[c] EXCEPT
                    !.log = @ \cup {Llamada("Appointment.countDocuments", FALSE, TRUE)}]
           idDoctor == IdDoctor(e.turno, e.req)
           nuevaFecha == NuevaFecha(e.turno, e.req)
       IN  enCurso' = [enCurso EXCEPT ![c] =
              IF CantidadDelDia(DB, idDoctor, nuevaFecha, e.req.id) >= CupoEditar
              THEN Aborta(e, 422, "CapacityExceeded")
              ELSE [e EXCEPT !.pc = "write"]]
    /\ UNCHANGED creados
    /\ SoloEnCurso

\* Another transaction in progress has written an appointment this one writes.
WriteConflict(c, escritos) ==
    \E o \in Clientes \ {c} :
        /\ enCurso[o].pc = "commit"
        /\ Escritos(enCurso[o].base, enCurso[o].staged) \cap escritos # {}

\* The change of patient, the change of doctor, the plain fields and
\* turno.save({ session }).
EditWrite(c) ==
    /\ enCurso[c].pc = "write"
    /\ LET e0 == enCurso[c]
           req == e0.req
           p5 == PasoPaciente(DB, e0.turno, req)
           p6 == PasoDoctor(p5.tx, p5.turno, req)
           guardado == [p6.tx EXCEPT !.turnos[req.id] =
                           FusionDeCampos(@, e0.turno,
                               CamposSimples(p6.turno, req, NuevaFecha(e0.turno, req)))]
           e5 == [e0 EXCEPT !.log = @ \cup LlamadasDePaciente(e0.turno, req, p5.fin)]
           e6 == [e5 EXCEPT !.log = @ \cup LlamadasDeDoctor(p5.turno, req, p6.fin)]
           e7 == [e6 EXCEPT !.log = @ \cup {Llamada("turno.save", TRUE, TRUE)}]
       IN  enCurso' = [enCurso EXCEPT ![c] =
              IF p5.fin = "StoreFailure" THEN [e0 EXCEPT !.pc = "catch"]
              ELSE IF p5.fin # "sigue" THEN Aborta(e5, StatusDe(p5.fin), p5.fin)
              ELSE IF p6.fin # "sigue" THEN Aborta(e6, StatusDe(p6.fin), p6.fin)
              ELSE IF req.falla = "save" \/ WriteConflict(c, Escritos(DB, guardado))
              THEN [e7 EXCEPT !.pc = "catch"]
              ELSE [e7 EXCEPT !.pc = "commit", !.base = DB, !.staged = guardado]]
    /\ UNCHANGED creados
    /\ SoloEnCurso

\* commitTransaction, endSession and the 200; or commitTransaction throws.
EditCommit(c) ==
    /\ enCurso[c].pc = "commit"
    /\ LET e == enCurso[c]
           db == Fusion(DB, e.base, e.staged)
       IN  IF e.req.falla = "commit"
           THEN /\ enCurso' = [enCurso EXCEPT ![c] =
                                  [e EXCEPT !.pc = "catch", !.txn = "committed"]]
                /\ UNCHANGED <<turnos, pacientes, doctores>>
           ELSE /\ turnos' = db.turnos
                /\ pacientes' = db.pacientes
                /\ doctores' = db.doctores
                /\ enCurso' = [enCurso EXCEPT ![c] =
                                  Contesta([e EXCEPT !.txn = "committed", !.commits = @ + 1,
                                                     !.ends = @ + 1], 200, "OK")]
    /\ UNCHANGED <<creados, res, cuentas>>

\* A branch that refuses: abortTransaction, endSession, next(error).
EditAbort(c) ==
    /\ enCurso[c].pc = "abort"
    /\ LET e == enCurso[c]
       IN  enCurso' = [enCurso EXCEPT ![c] =
              IF AbortThrows(e.txn) THEN [e EXCEPT !.pc = "catch"]
              ELSE Contesta([e EXCEPT !.txn = "aborted", !.aborts = @ + 1, !.ends = @ + 1],
                            e.status, e.kind)]
    /\ UNCHANGED creados
    /\ SoloEnCurso

\* The catch: abortTransaction, endSession, next(500).  An abortTransaction
\* that throws here rejects the handler's promise: nothing after it runs.
EditCatch(c) ==
    /\ enCurso[c].pc = "catch"
    /\ LET e == enCurso[c]
       IN  enCurso' = [enCurso EXCEPT ![c] =
              IF AbortThrows(e.txn)
              THEN [e EXCEPT !.pc = "rejected", !.base = Vacia, !.staged = Vacia]
              ELSE Contesta([e EXCEPT !.txn = "aborted", !.aborts = @ + 1, !.ends = @ + 1],
                            500, "StoreFailure")]
    /\ UNCHANGED creados
    /\ SoloEnCurso

PasoDeEdicion(c) ==
    \/ EditLoad(c)
    \/ EditSlot(c)
    \/ EditCount(c)
    \/ EditWrite(c)
    \/ EditCommit(c)
    \/ EditAbort(c)
    \/ EditCatch(c)
    \/ Recibir(c)

NextEdicion == \E c \in Clientes : PasoDeEdicion(c)

SpecEdicion == InitEdicion /\ [][NextEdicion]_vars

\* The event loop runs every continuation that is ready.
SpecEdicionJusta ==
    InitEdicion /\ [][NextEdicion]_vars /\ \A c \in Clientes : WF_vars(PasoDeEdicion(c))

(***************************************************************************)
(* The four appointment handlers over a store with appointments in it.     *)
(***************************************************************************)
InitMarco == Init /\ Len(turnos) = CupoCrear + 1

NextMarco ==
    CreateAppointment \/ EditAppointment \/ GetAppointments \/ GetAppointmentById \/ Deliver

SpecMarco == InitMarco /\ [][NextMarco]_vars

(***************************************************************************)
(* editAppointment behind its route, PATCH '/:turnoId/estado': the handler *)
(* is given the params the route binds and a body with the state alone.    *)
(***************************************************************************)
PatchEstadoResult(db, req) ==
    EditAppointmentResult(db, [id |-> Param(req.params, "id"), paciente |-> Undefined,
                               doctor |-> Undefined, fecha |-> Undefined,
                               hora |-> Undefined, estado |-> req.estado,
                               falla |-> "none"])

PatchEstado ==
    /\ res = NoRes
    /\ \E req \in PatchEstadoRequests(Len(turnos)) :
          /\ Responder("patchEstado", req, PatchEstadoResult(DB, req))
          /\ UNCHANGED creados

NextRuta == CreateAppointment \/ PatchEstado \/ Deliver

SpecRuta == Init /\ [][NextRuta]_vars

(***************************************************************************)
(* The appointment handlers next to deletePatient.                         *)
(***************************************************************************)
DeletePatient ==
    /\ res = NoRes
    /\ \E req \in DeletePatientRequests :
          /\ Responder("deletePatient", req, DeletePatientResult(DB, req))
          /\ UNCHANGED creados

NextPacientes == CreateAppointment \/ EditAppointment \/ DeletePatient \/ Deliver

SpecPacientes == Init /\ [][NextPacientes]_vars

(***************************************************************************)
(* The password recovery handlers and the clock.  emitidos are the links   *)
(* mailed; gastados are the links a reset has used or a later, different   *)
(* link of the same user has replaced.                                     *)
(***************************************************************************)
MaxHoras == 1
MaxSegundos == 1

Instantes == {h * UnaHora + s : h \in 0..MaxHoras, s \in 0..MaxSegundos}

CuentasAntes == [usuarios |-> usuarios, gastados |-> gastados, reloj |-> reloj]

ResponderCuenta(op, req, r) ==
    /\ usuarios' = r.usuarios
    /\ res' = [op |-> op, req |-> req, status |-> r.status, kind |-> r.kind,
               antes |-> CuentasAntes]
    /\ UNCHANGED <<turnos, pacientes, doctores, creados, enCurso, reloj>>

Reemplazados(token) ==
    {t \in emitidos : t.payload.userId = token.payload.userId /\ t # token}

ForgotPassword ==
    /\ res = NoRes
    /\ \E req \in ForgotRequests :
          LET r == ForgotPasswordResult(usuarios, reloj, req)
          IN  /\ ResponderCuenta("forgotPassword", req, r)
              /\ emitidos' = IF r.enviado = SinToken THEN emitidos
                             ELSE emitidos \cup {r.enviado}
              /\ gastados' = IF r.enviado = SinToken THEN gastados
                             ELSE gastados \cup Reemplazados(r.enviado)

VerifyResetToken ==
    /\ res = NoRes
    /\ \E token \in TokensPresentados(emitidos, reloj) :
          LET req == [token |-> token]
          IN  /\ ResponderCuenta("verifyResetToken", req,
                                 VerifyResetTokenResult(usuarios, reloj, req))
              /\ UNCHANGED <<emitidos, gastados>>

ResetPassword ==
    /\ res = NoRes
    /\ \E token \in TokensPresentados(emitidos, reloj), password \in PasswordsPedidas :
          LET req == [token |-> token, password |-> password]
              r == ResetPasswordResult(usuarios, reloj, req)
          IN  /\ ResponderCuenta("resetPassword", req, r)
              /\ gastados' = IF r.status = 200 THEN gastados \cup {token} ELSE gastados
              /\ UNCHANGED emitidos

\* The clock moves on to a later instant.
Tick ==
    /\ res = NoRes
    /\ \E t \in Instantes : t > reloj /\ reloj' = t
    /\ UNCHANGED <<turnos, pacientes, doctores, creados, res, enCurso,
                   usuarios, emitidos, gastados>>

InitCuentas == Init /\ turnos = <<>>

NextCuentas == ForgotPassword \/ VerifyResetToken \/ ResetPassword \/ Tick \/ Deliver

SpecCuentas == InitCuentas /\ [][NextCuentas]_vars

(***************************************************************************)
(* What the properties read off a state.                                   *)
(***************************************************************************)
\* The calendar day of an instant, and the day a request's date names.
DiaDe(date) == date \div MinutosPorDia

DiaPedido(fecha) == IndiceDe(Fechas, fecha)

Contiene(seq, x) == \E k \in 1..Len(seq) : seq[k] = x

Veces(seq, x) == Cardinality({k \in 1..Len(seq) : seq[k] = x})

\* The appointments of a doctor on a day: the confirmed ones, all but one.
ConfirmadosDelDia(ts, d, dia) ==
    {i \in DOMAIN ts : ts[i].doctor = d /\ DiaDe(ts[i].fecha) = dia
                       /\ ts[i].estado = "confirmado"}

OtrosDelDia(ts, d, dia, id) ==
    {i \in DOMAIN ts : i # id /\ ts[i].doctor = d /\ DiaDe(ts[i].fecha) = dia}

\* The response in flight answers an edit of an appointment that existed
\* when the request arrived, and the load of that appointment did not throw.
EditoExistente ==
    /\ res.op = "edit"
    /\ res.req.falla # "find"
    /\ res.req.id \in DOMAIN res.antes.turnos

\* The appointment as it was when the request of the response arrived.
TurnoAntes == res.antes.turnos[res.req.id]

\* The doctor and the instant the edit is about: the patch's, else the
\* appointment's own.
DoctorEfectivo ==
    IF res.req.doctor # Undefined THEN res.req.doctor ELSE TurnoAntes.doctor

InstanteEfectivo ==
    IF res.req.fecha # Undefined
    THEN DiaPedido(res.req.fecha) * MinutosPorDia + HoraEnMinutos(res.req.hora)
    ELSE TurnoAntes.fecha

\* Another appointment holds the effective doctor at the effective instant.
OtroEnElSlot ==
    \E j \in DOMAIN res.antes.turnos :
        /\ j # res.req.id
        /\ res.antes.turnos[j].doctor = DoctorEfectivo
        /\ res.antes.turnos[j].fecha = InstanteEfectivo

\* The patch names a patient other than the appointment's, and it exists.
CambiaPaciente ==
    /\ res.req.paciente # Undefined
    /\ res.req.paciente # TurnoAntes.paciente
    /\ res.req.paciente \in DOMAIN res.antes.pacientes

\* The patch names a doctor other than the appointment's.
CambiaDoctor ==
    /\ res.req.doctor # Undefined
    /\ res.req.doctor # TurnoAntes.doctor

(***************************************************************************)
(* The claims.                                                             *)
(***************************************************************************)
\* C1: slot exclusivity.  For every doctor and instant, at most one
\* appointment that is not cancelled has that doctor and that instant.
SlotExclusivity ==
    \A i, j \in DOMAIN turnos :
        (/\ i # j
         /\ turnos[i].estado # "cancelado"
         /\ turnos[j].estado # "cancelado"
         /\ turnos[i].doctor = turnos[j].doctor)
        => turnos[i].fecha # turnos[j].fecha

\* C2: daily cap.  For every doctor and calendar day, the doctor holds at
\* most 8 confirmed appointments and at most 10 appointments of any state
\* on that day.
DailyCapInvariant ==
    \A d \in IdsDoctor, dia \in 1..Len(Fechas) :
        /\ Cardinality(ConfirmadosDelDia(turnos, d, dia)) <= CupoCrear
        /\ Cardinality(OtrosDelDia(turnos, d, dia, 0)) <= CupoEditar

\* C3: two-way back-reference consistency.  After a successful create or
\* edit, every appointment's id is in the turnos list of its patient and of
\* its doctor, and every id in such a list names an appointment of that
\* patient or doctor.
BackReferenceConsistency ==
    (res.op \in {"create", "edit"} /\ res.status \in {200, 201}) =>
        /\ \A i \in DOMAIN turnos :
              /\ turnos[i].paciente \in DOMAIN pacientes
              /\ Contiene(pacientes[turnos[i].paciente].turnos, i)
              /\ turnos[i].doctor \in DOMAIN doctores
              /\ Contiene(doctores[turnos[i].doctor].turnos, i)
        /\ \A p \in DOMAIN pacientes : \A k \in 1..Len(pacientes[p].turnos) :
              /\ pacientes[p].turnos[k] \in DOMAIN turnos
              /\ turnos[pacientes[p].turnos[k]].paciente = p
        /\ \A d \in DOMAIN doctores : \A k \in 1..Len(doctores[d].turnos) :
              /\ doctores[d].turnos[k] \in DOMAIN turnos
              /\ turnos[doctores[d].turnos[k]].doctor = d

\* C4: failure atomicity of edit.  Whenever editAppointment fails, for any
\* reason, the appointments and the patients' and doctors' records are the
\* ones the store held when the request arrived.
EditFailureAtomicity ==
    (res.op = "edit" /\ res.status # 200) => DB = res.antes

\* C4, its case: the change of doctor failed after the change of patient
\* had issued its pull and push.
EditFailedAfterPatientStep ==
    /\ EditoExistente
    /\ CambiaPaciente
    /\ res.kind = "DoctorInactive"

\* C4, another case: the commit threw with the appointment's save staged,
\* and the abort of the catch threw after it: the handler answered nothing.
EditFailedAtCommit ==
    /\ EditoExistente
    /\ res.req.falla = "commit"
    /\ res.req.estado # Undefined
    /\ res.req.estado # TurnoAntes.estado
    /\ res.kind = "Rejected"

\* C5: create capacity check.  A createAppointment that gets to the count
\* (valid input, patient and doctor found, no store call threw before it)
\* fails with CapacityExceeded, inserting nothing, exactly when the doctor
\* had 8 or more confirmed appointments on the calendar day asked for;
\* appointments in other states do not count.
CreateCapacityCheck ==
    (/\ res.op = "create"
     /\ res.req.valido
     /\ res.req.falla \notin {"find", "count"}
     /\ res.req.paciente \in DOMAIN res.antes.pacientes
     /\ res.req.doctor \in DOMAIN res.antes.doctores)
    => ((res.kind = "CapacityExceeded" /\ res.status # 201 /\ turnos = res.antes.turnos)
        <=> Cardinality(ConfirmadosDelDia(res.antes.turnos, res.req.doctor,
                                          DiaPedido(res.req.fecha))) >= CupoCrear)

\* C5, its case: a create refused for capacity.
CreateRefusedForCapacity ==
    /\ res.op = "create"
    /\ res.kind = "CapacityExceeded"

\* C5, its other case: a create accepted for a doctor who holds 10
\* appointments that day, only 7 of them confirmed.
CreateAcceptedBesideOtherStates ==
    /\ res.op = "create"
    /\ res.status = 201
    /\ Cardinality(OtrosDelDia(res.antes.turnos, res.req.doctor,
                               DiaPedido(res.req.fecha), 0)) >= CupoEditar

\* C6: edit capacity check.  An edit of an existing appointment fails with
\* CapacityExceeded exactly when no other appointment holds the effective
\* doctor at the effective instant and the effective doctor has 10 or more
\* appointments of any state, the edited one aside, on the effective day.
EditCapacityCheck ==
    EditoExistente =>
        (res.kind = "CapacityExceeded"
         <=> (/\ ~OtroEnElSlot
              /\ Cardinality(OtrosDelDia(res.antes.turnos, DoctorEfectivo,
                                         DiaDe(InstanteEfectivo), res.req.id))
                    >= CupoEditar))

\* C6, its case: an edit refused for capacity.
EditRefusedForCapacity ==
    /\ res.op = "edit"
    /\ res.kind = "CapacityExceeded"

\* C7: edit slot-conflict check with self-exclusion.  An edit of an
\* existing appointment fails with SlotConflict exactly when an appointment
\* other than the edited one holds the effective doctor at the effective
\* instant; the edited appointment itself never counts.
EditSlotConflictCheck ==
    EditoExistente => (res.kind = "SlotConflict" <=> OtroEnElSlot)

\* C7, its case: an edit refused because another appointment holds the slot.
EditRefusedForSlot ==
    /\ res.op = "edit"
    /\ res.kind = "SlotConflict"

\* C7, its other case: an edit that names the appointment's own doctor and
\* instant went through.
EditOfOwnSlotAccepted ==
    /\ EditoExistente
    /\ res.req.doctor = TurnoAntes.doctor
    /\ res.req.fecha # Undefined
    /\ InstanteEfectivo = TurnoAntes.fecha
    /\ res.status = 200

\* The patch of the response names exactly the appointment's own values.
PatchDeValoresActuales ==
    /\ res.req.paciente = TurnoAntes.paciente
    /\ res.req.doctor = TurnoAntes.doctor
    /\ res.req.fecha = Fechas[DiaDe(TurnoAntes.fecha)]
    /\ res.req.hora = TurnoAntes.hora
    /\ res.req.estado = TurnoAntes.estado

\* C8: idempotent no-op edit.  An edit of an existing appointment whose
\* patch holds only the appointment's current patient, doctor, date, time
\* and state succeeds and leaves every record as it was.
NoOpEditSucceeds ==
    (EditoExistente /\ res.req.falla = "none" /\ PatchDeValoresActuales)
    => (res.status = 200 /\ DB = res.antes)

\* C9: back-reference symmetry on re-assignment.  After a successful edit
\* that names another patient (doctor), the old one's list does not hold
\* the appointment id, the new one's list holds it exactly once, and the
\* appointment references the new one.
ReassignmentSymmetry ==
    (EditoExistente /\ res.status = 200) =>
        /\ CambiaPaciente =>
              /\ ~Contiene(pacientes[TurnoAntes.paciente].turnos, res.req.id)
              /\ Veces(pacientes[res.req.paciente].turnos, res.req.id) = 1
              /\ turnos[res.req.id].paciente = res.req.paciente
        /\ CambiaDoctor =>
              /\ ~Contiene(doctores[TurnoAntes.doctor].turnos, res.req.id)
              /\ Veces(doctores[res.req.doctor].turnos, res.req.id) = 1
              /\ turnos[res.req.id].doctor = res.req.doctor

\* C10: doctor re-assignment check.  An edit that names another doctor and
\* passes the slot, cap and patient checks fails exactly when that doctor
\* does not exist or is not active; when the doctor exists and is active
\* the edit succeeds and the appointment references that doctor.
DoctorReassignmentCheck ==
    (/\ EditoExistente
     /\ res.req.falla = "none"
     /\ CambiaDoctor
     /\ res.kind \notin {"SlotConflict", "CapacityExceeded"}
     /\ res.req.paciente \in DOMAIN res.antes.pacientes \cup {Undefined})
    => LET activo == /\ res.req.doctor \in DOMAIN res.antes.doctores
                     /\ res.antes.doctores[res.req.doctor].activo
       IN  /\ res.status # 200 <=> ~activo
           /\ activo => turnos[res.req.id].doctor = res.req.doctor

(***************************************************************************)
(* The doctor of an appointment.                                           *)
(***************************************************************************)
\* C11: after every successful create and every successful edit the doctor
\* of the created or edited appointment is marked active.
ActiveDoctorInvariant ==
    /\ (res.op = "create" /\ res.status = 201) =>
           doctores[turnos[Len(turnos)].doctor].activo
    /\ (res.op = "edit" /\ res.status = 200) =>
           doctores[turnos[res.req.id].doctor].activo

(***************************************************************************)
(* The patch of an edit and the appointment of a create.                   *)
(***************************************************************************)
\* The field names a patch may carry: patient, doctor, date with time, state.
CamposDelPatch == {"paciente", "doctor", "fecha", "hora", "estado"}

\* C12: an edit fails with InvalidUpdate (400), whatever the id and before
\* anything is loaded, exactly when its patch has a field name outside the
\* allowed set, and then the store is as it was.
PatchAllowList ==
    res.op = "edit" =>
        /\ ~(Claves(res.req) \subseteq CamposDelPatch) =>
               /\ res.kind = "InvalidUpdate"
               /\ res.status = 400
               /\ DB = res.antes
        /\ Claves(res.req) \subseteq CamposDelPatch => res.kind # "InvalidUpdate"

\* C13: the appointment a successful create appends has the requested
\* state, and state confirmado when the request names none.
CreateDefaultState ==
    (res.op = "create" /\ res.status = 201) =>
        /\ Len(turnos) = Len(res.antes.turnos) + 1
        /\ res.req.estado # Undefined => turnos[Len(turnos)].estado = res.req.estado
        /\ res.req.estado = Undefined => turnos[Len(turnos)].estado = "confirmado"

CreatedWithoutState ==
    /\ res.op = "create"
    /\ res.status = 201
    /\ res.req.estado = Undefined

CreatedWithState ==
    /\ res.op = "create"
    /\ res.status = 201
    /\ res.req.estado = "cancelado"

\* The store with the active flag of every doctor inverted.
FlagsInvertidos(db) ==
    [db EXCEPT !.doctores = [d \in DOMAIN @ |-> [@[d] EXCEPT !.activo = ~@]]]

EditAppliesPatch ==
    (res.op = "edit" /\ res.status = 200) =>
        LET t == turnos[res.req.id]
            a == res.antes.turnos[res.req.id]
        IN  /\ IF res.req.fecha # Undefined /\ res.req.hora # Undefined
               THEN /\ t.fecha = NewDate(res.req.fecha, res.req.hora)
                    /\ t.hora = res.req.hora
               ELSE /\ t.fecha = a.fecha
                    /\ t.hora = a.hora
            /\ t.estado = IF res.req.estado # Undefined THEN res.req.estado ELSE a.estado
            /\ res.req.paciente = Undefined => t.paciente = a.paciente
            /\ res.req.doctor = Undefined => t.doctor = a.doctor

\* The status each kind of failure is assigned.
StatusAsignado ==
    [NotFound |-> 404, InvalidUpdate |-> 400, InvalidPagination |-> 400,
     SlotConflict |-> 422, CapacityExceeded |-> 422, DoctorInactive |-> 400,
     StoreFailure |-> 500]

\* C19: every failure of a handler carries the status assigned to its
\* kind, SlotConflict and CapacityExceeded 422 on both paths.
ErrorStatusMapping ==
    (res.op # "none" /\ res.kind \in DOMAIN StatusAsignado) =>
        res.status = StatusAsignado[res.kind]

(***************************************************************************)
(* Reading.                                                                *)
(***************************************************************************)
\* The path segment of a get-by-id request.
Segmento(req) == req.params.turnoId

\* C16: GET /:turnoId returns the stored appointment of that id when there
\* is one, fails with NotFound (404) only when there is none, and leaves
\* the store as it was.
GetByIdReturnsStored ==
    res.op = "get" =>
        /\ DB = res.antes
        /\ (res.req.falla = "none" /\ Segmento(res.req) \in DOMAIN res.antes.turnos) =>
               /\ res.status = 200
               /\ res.cuerpo.turno = res.antes.turnos[Segmento(res.req)]
        /\ res.kind = "NotFound" =>
               /\ res.status = 404
               /\ Segmento(res.req) \notin DOMAIN res.antes.turnos

\* The appointments a listing's filter matches, said of the calendar day.
Coincidentes(db, req) ==
    {i \in DOMAIN db.turnos :
        /\ req.paciente \in {Undefined, db.turnos[i].paciente}
        /\ req.doctor \in {Undefined, db.turnos[i].doctor}
        /\ req.fecha = Undefined \/ DiaDe(db.turnos[i].fecha) = DiaPedido(req.fecha)}

\* A listing the handler takes to the store and the store answers: its page
\* and limit are positive numbers, its ids name documents, its date is one.
ListadoAtendido ==
    /\ res.op = "list"
    /\ ~NumeroInvalido(res.req.page)
    /\ ~NumeroInvalido(res.req.limit)
    /\ res.req.falla = "none"
    /\ res.req.fecha = Undefined \/ ~FechaInvalida(res.req.fecha)
    /\ res.req.paciente \in {Undefined} \cup DOMAIN res.antes.pacientes
    /\ res.req.doctor \in {Undefined} \cup DOMAIN res.antes.doctores

PaginaPedida == NumeroDe(res.req.page, PaginaPorDefecto)

LimitePedido == NumeroDe(res.req.limit, LimitePorDefecto)

Anteriores(db, ids, i) == {j \in ids : db.turnos[j].fecha < db.turnos[i].fecha}

NoPosteriores(db, ids, i) == {j \in ids : db.turnos[j].fecha <= db.turnos[i].fecha}

\* C18: a successful listing of page p with s per page returns the
\* appointments at positions (p-1)*s+1 .. min(p*s, total) of the matching
\* ones in ascending order of date, with total their number, totalPages
\* the least n with n*s >= total, and page p.
ListPagination ==
    (res.op = "list" /\ res.status = 200) =>
        LET ids    == Coincidentes(res.antes, res.req)
            total  == Cardinality(ids)
            desde  == (PaginaPedida - 1) * LimitePedido
            hasta  == IF PaginaPedida * LimitePedido < total
                      THEN PaginaPedida * LimitePedido ELSE total
            pagina == res.cuerpo.turnos
        IN  /\ PaginaPedida >= 1 /\ LimitePedido >= 1
            /\ Len(pagina) = hasta - desde
            /\ \A k \in 1..Len(pagina) :
                   /\ pagina[k] \in ids
                   /\ Cardinality(Anteriores(res.antes, ids, pagina[k])) <= desde + k - 1
                   /\ Cardinality(NoPosteriores(res.antes, ids, pagina[k])) >= desde + k
            /\ \A k, l \in 1..Len(pagina) :
                   k < l => /\ pagina[k] # pagina[l]
                            /\ res.antes.turnos[pagina[k]].fecha
                                   <= res.antes.turnos[pagina[l]].fecha
            /\ res.cuerpo.totalTurnos = total
            /\ res.cuerpo.totalPaginas * LimitePedido >= total
            /\ (res.cuerpo.totalPaginas - 1) * LimitePedido < total
            /\ res.cuerpo.paginaActual = PaginaPedida
            /\ DB = res.antes

ListedSecondPage ==
    /\ res.op = "list"
    /\ res.status = 200
    /\ PaginaPedida = 2
    /\ Len(res.cuerpo.turnos) > 1
    /\ res.cuerpo.totalPaginas > 2

ListedOutOfOrderOfId ==
    /\ res.op = "list"
    /\ res.status = 200
    /\ \E k \in 1..(Len(res.cuerpo.turnos) - 1) :
           res.cuerpo.turnos[k] > res.cuerpo.turnos[k + 1]

(***************************************************************************)
(* Registration.                                                           *)
(***************************************************************************)
\* The key of a registration was held by a document when its handler made
\* its last store call.
ClaveTomada(e) ==
    IF e.op = "createPatient"
    THEN \E p \in DOMAIN e.antes.pacientes : e.antes.pacientes[p].dni = e.req.dni
    ELSE \E d \in DOMAIN e.antes.doctores : e.antes.doctores[d].matricula = e.req.matricula

UniqueKeys ==
    /\ \A p, q \in DOMAIN pacientes : p # q => pacientes[p].dni # pacientes[q].dni
    /\ \A d, e \in DOMAIN doctores : d # e => doctores[d].matricula # doctores[e].matricula

\* C20: a registration whose dni or matricula another document holds fails
\* with DuplicateKey (422), never with the generic 500, also when the
\* document was inserted after the registration's pre-check; and no two
\* patients share a dni, no two doctors a matricula.
DuplicateKeyIsDistinct ==
    /\ \A c \in Clientes :
           (enCurso[c].pc = "done" /\ enCurso[c].req.valido /\ ClaveTomada(enCurso[c])) =>
               /\ enCurso[c].status = 422
               /\ enCurso[c].kind = "DuplicateKey"
    /\ UniqueKeys

(***************************************************************************)
(* Availability.                                                           *)
(***************************************************************************)
\* An appointment is at exactly the date and time a call names.
EnLaFechaYHora(turno, fecha, hora) ==
    /\ IF fecha.type = "date"
       THEN turno.fecha = fecha.value
       ELSE DiaDe(turno.fecha) = DiaPedido(fecha.value)
    /\ turno.hora = hora

\* The appointments that occupy the slot of a call: of its doctor, at its
\* date and time, not cancelled, other than the one it leaves out.
Ocupantes(db, req) ==
    {i \in DOMAIN db.turnos :
        /\ i # req.excluir
        /\ db.turnos[i].doctor = req.doctor
        /\ EnLaFechaYHora(db.turnos[i], req.fecha, req.hora)
        /\ db.turnos[i].estado # "cancelado"}

\* C21: the availability check answers true exactly when no appointment of
\* that doctor at exactly that date and time is in a state other than
\* cancelado, the appointment to leave out not counted.
AvailabilityCheck ==
    res.op = "disponibilidad" =>
        (res.cuerpo.libre <=> Ocupantes(res.antes, res.req) = {})

(***************************************************************************)
(* Deactivation of a doctor.                                               *)
(***************************************************************************)
\* An update that asks for activo = false, of a doctor who is active, and
\* that no other check of the handler refuses.
PideBaja ==
    /\ res.op = "updateDoctor"
    /\ res.req.activo = JsBoolean(FALSE)
    /\ res.req.doctorId \in DOMAIN res.antes.doctores
    /\ res.antes.doctores[res.req.doctorId].activo
    /\ res.req.matricula \in {Undefined, res.antes.doctores[res.req.doctorId].matricula}

\* The appointments of a doctor dated after now, pendiente or confirmado.
PendientesDe(db, d) ==
    {i \in DOMAIN db.turnos :
        /\ db.turnos[i].doctor = d
        /\ db.turnos[i].fecha > Ahora
        /\ db.turnos[i].estado \in {"pendiente", "confirmado"}}

\* C22: updateDoctor with activo = false on an active doctor fails with 422
\* and leaves the doctor active exactly when the doctor has an appointment
\* after now that is pendiente or confirmado; otherwise it succeeds and the
\* doctor is inactive.
DeactivationGuard ==
    PideBaja =>
        IF PendientesDe(res.antes, res.req.doctorId) # {}
        THEN /\ res.status = 422
             /\ doctores[res.req.doctorId].activo
        ELSE /\ res.status = 200
             /\ ~doctores[res.req.doctorId].activo

(***************************************************************************)
(* Password-reset links.                                                   *)
(***************************************************************************)
PresentaToken == res.op \in {"verifyResetToken", "resetPassword"}

Passwords(us) == [u \in DOMAIN us |-> us[u].password]

\* C23: verifyResetToken and resetPassword accept a token only while it is
\* the resetPasswordToken stored on an active user; once a reset with the
\* token has succeeded, or a later forgotPassword of the same user has issued
\* a different token, every verification or reset with it fails and changes
\* no password.
ResetTokenSingleUse ==
    PresentaToken =>
        /\ res.status = 200 => UsuarioConToken(res.antes.usuarios, res.req.token) # {}
        /\ res.req.token \in res.antes.gastados =>
              /\ res.status # 200
              /\ Passwords(usuarios) = Passwords(res.antes.usuarios)

(***************************************************************************)
(* Concurrent creations.                                                   *)
(***************************************************************************)
\* A creation that got past its count and whose save did not throw.
CreoTrasContar(c) ==
    /\ enCurso[c].pc = "done"
    /\ enCurso[c].op = "createAppointment"
    /\ enCurso[c].leidos < CupoCrear
    /\ enCurso[c].kind \notin {"InvalidData", "NotFound"}
    /\ enCurso[c].req.falla = "none"

\* C24: createAppointment reads the count and inserts in two store calls
\* with nothing between them, so a call that read a count under the cap
\* inserts whatever other calls inserted since: two concurrent calls for a
\* doctor and day with 7 confirmed both pass the check and both insert,
\* leaving 9 confirmed.
CreateRace ==
    \A c \in Clientes :
        CreoTrasContar(c) =>
            /\ enCurso[c].status = 201
            /\ Len(turnos) > Len(enCurso[c].antes.turnos)

\* C24, its case: both calls read 7 confirmed, both inserted, 9 are stored.
BothCreatedPastCap ==
    /\ \A c \in Clientes :
          /\ CreoTrasContar(c)
          /\ enCurso[c].leidos = CupoCrear - 1
          /\ enCurso[c].status = 201
          /\ enCurso[c].req.doctor = "d1"
          /\ enCurso[c].req.fecha = Fechas[1]
    /\ Cardinality(ConfirmadosDelDia(turnos, "d1",
                                     DiaDe(NewDate(Fechas[1], HorasDelDia[1]))))
          = CupoCrear + 1

(***************************************************************************)
(* The transaction of an edit.                                             *)
(***************************************************************************)
Edita(c) == enCurso[c].pc # "idle" /\ enCurso[c].op = "edit"

\* C25: every store read (the load, the slot lookup, the count of the day,
\* the lookups of the new patient and doctor) and every write of an edit
\* runs in the call's one session, between startTransaction and the commit
\* or abort.
EditTransactionalScope ==
    \A c \in Clientes :
        Edita(c) => \A l \in enCurso[c].log : l.session /\ l.dentro

\* An edit that committed, and the doctor and instant it left its appointment at.
Confirmo(c) == Edita(c) /\ enCurso[c].pc = "done" /\ enCurso[c].status = 200

Destino(c) ==
    <<IdDoctor(enCurso[c].turno, enCurso[c].req), NuevaFecha(enCurso[c].turno, enCurso[c].req)>>

\* The two calls ran at the same time: one arrived while the other was under way.
Simultaneos(a, b) ==
    \/ enCurso[a].n \in enCurso[b].concurrentes
    \/ enCurso[b].n \in enCurso[a].concurrentes

\* No appointment held the slot when the call arrived.
DestinoLibre(c) ==
    \A i \in DOMAIN enCurso[c].antes.turnos :
        <<enCurso[c].antes.turnos[i].doctor, enCurso[c].antes.turnos[i].fecha>> # Destino(c)

\* C26: of two concurrent edits of different appointments that move them
\* to the same free slot of a doctor, at most one commits.
ConcurrentEditsKeepSlot ==
    \A a, b \in Clientes :
        (/\ a # b
         /\ Confirmo(a) /\ Confirmo(b)
         /\ Simultaneos(a, b)
         /\ enCurso[a].req.id # enCurso[b].req.id
         /\ DestinoLibre(a) /\ DestinoLibre(b))
        => Destino(a) # Destino(b)

\* The call has started its transaction and has not answered.
ConTransaccion(c) == Edita(c) /\ enCurso[c].txn # "none" /\ enCurso[c].pc # "done"

\* The call committed or aborted once, ended its session once and answered once.
Liberada(c) ==
    /\ Edita(c)
    /\ enCurso[c].pc = "done"
    /\ enCurso[c].commits + enCurso[c].aborts = 1
    /\ enCurso[c].ends = 1
    /\ enCurso[c].outcomes = 1

\* C27: every edit that starts a transaction eventually commits or aborts
\* it, exactly one of the two, then ends the session exactly once, on every
\* exit path, and delivers exactly one outcome.
EditReleasesTransaction ==
    \A c \in Clientes : ConTransaccion(c) ~> Liberada(c)

(***************************************************************************)
(* The frame of the appointment handlers.                                  *)
(***************************************************************************)
\* The appointments the store held before are the ones it holds now.
MismosTurnos(excepto) ==
    /\ DOMAIN res.antes.turnos \subseteq DOMAIN turnos
    /\ \A i \in DOMAIN res.antes.turnos \ excepto : turnos[i] = res.antes.turnos[i]

\* A record of a patient or doctor is as it was, or it is as it was with id
\* added at the end of its back-reference list.
ConUnaEntradaMas(ahora, antes, id) ==
    \/ ahora = antes
    \/ ahora = [antes EXCEPT !.turnos = Append(@, id)]

FrameOfCreate ==
    LET nuevo == Len(res.antes.turnos) + 1
    IN  /\ MismosTurnos({})
        /\ Len(turnos) <= nuevo
        /\ DOMAIN pacientes = DOMAIN res.antes.pacientes
        /\ DOMAIN doctores = DOMAIN res.antes.doctores
        /\ \A p \in DOMAIN pacientes :
              IF Len(turnos) = nuevo /\ turnos[nuevo].paciente = p
              THEN ConUnaEntradaMas(pacientes[p], res.antes.pacientes[p], nuevo)
              ELSE pacientes[p] = res.antes.pacientes[p]
        /\ \A d \in DOMAIN doctores :
              IF Len(turnos) = nuevo /\ turnos[nuevo].doctor = d
              THEN ConUnaEntradaMas(doctores[d], res.antes.doctores[d], nuevo)
              ELSE doctores[d] = res.antes.doctores[d]

FrameOfEdit ==
    LET a == res.req.id
        tocados == {res.antes.turnos[a].paciente, turnos[a].paciente,
                    res.antes.turnos[a].doctor, turnos[a].doctor}
    IN  /\ MismosTurnos({a})
        /\ DOMAIN turnos = DOMAIN res.antes.turnos
        /\ DOMAIN pacientes = DOMAIN res.antes.pacientes
        /\ DOMAIN doctores = DOMAIN res.antes.doctores
        /\ \A p \in DOMAIN pacientes \ tocados : pacientes[p] = res.antes.pacientes[p]
        /\ \A d \in DOMAIN doctores \ tocados : doctores[d] = res.antes.doctores[d]

\* C28: createAppointment changes no appointment the store held and adds at
\* most one, with at most its entry in the lists of its patient and doctor;
\* getAppointments and getAppointmentById change nothing; an editAppointment
\* that succeeds on appointment A changes no appointment but A and no
\* back-reference list but those of A's old and new patient and doctor.
FrameOfOperations ==
    /\ res.op = "create" => FrameOfCreate
    /\ res.op \in {"list", "get"} => DB = res.antes
    /\ (res.op = "edit" /\ res.status = 200) => FrameOfEdit

\* C28, its cases: a creation beside stored appointments, an edit that
\* changed its appointment beside others, a listing of a store with some.
CreatedBesideOthers ==
    /\ res.op = "create"
    /\ res.status = 201
    /\ \E i \in DOMAIN res.antes.turnos :
          /\ res.antes.turnos[i].doctor = res.req.doctor
          /\ res.antes.turnos[i].fecha = NewDate(res.req.fecha, res.req.hora)

EditedBesideOthers ==
    /\ res.op = "edit"
    /\ res.status = 200
    /\ Len(res.antes.turnos) > 1
    /\ turnos[res.req.id] # res.antes.turnos[res.req.id]

ListedBesideOthers ==
    /\ res.op = "list"
    /\ res.status = 200
    /\ res.antes.turnos # <<>>

(***************************************************************************)
(* Edits of the state alone.                                               *)
(***************************************************************************)
\* C29: an edit whose patch holds only a state runs the slot check and the
\* 10-per-day check against the appointment's own doctor and instant: it
\* fails, leaving the state as it was, when another appointment of that
\* doctor is at the same instant or the doctor has 10 or more other
\* appointments that day, and it succeeds and sets the state otherwise.
StateOnlyEditGated ==
    (res.op = "patchEstado" /\ Segmento(res.req) \in DOMAIN res.antes.turnos) =>
        LET a == Segmento(res.req)
            t == res.antes.turnos[a]
            ocupado == \E j \in DOMAIN res.antes.turnos :
                          /\ j # a
                          /\ res.antes.turnos[j].doctor = t.doctor
                          /\ res.antes.turnos[j].fecha = t.fecha
            lleno == Cardinality(OtrosDelDia(res.antes.turnos, t.doctor, DiaDe(t.fecha), a))
                        >= CupoEditar
        IN  IF ocupado \/ lleno
            THEN res.status # 200 /\ turnos[a].estado = t.estado
            ELSE res.status = 200 /\ turnos[a].estado = res.req.estado

(***************************************************************************)
(* References of the appointments.                                         *)
(***************************************************************************)
\* C30: in every state the operations reach, every stored appointment
\* references a patient record and a doctor record that exist.
ReferentialIntegrity ==
    \A i \in DOMAIN turnos :
        /\ turnos[i].paciente \in DOMAIN pacientes
        /\ turnos[i].doctor \in DOMAIN doctores
====
